---------------------------- MODULE Spec2Model ----------------------------
(***************************************************************************)
(* State-machine model of the interaction core of zilol_native:            *)
(*   packages/cpp/gestures/GestureRecognizer.h  (Pan, Pinch, Tap)          *)
(*   packages/cpp/gestures/TouchDispatcher.h    (capture, press tracking)  *)
(*   packages/cpp/gestures/ScrollEngine.h       (tracker, physics, engine, *)
(*                                               manager)                  *)
(*   packages/cpp/animation/AnimationTicker.h   (timing driver, ticker)    *)
(*   packages/cpp/runtime/ZilolRuntime.cpp      (timers, onVsync)          *)
(*                                                                         *)
(* Every handler of the source is a pure operator from the object's record *)
(* (fields named as in the source) and the call's arguments to the new     *)
(* record, the user callbacks it invoked in order (fired) and the states   *)
(* it assigned in order (trail).  An action applies one handler to the     *)
(* object held in a variable.  lastOp, pre, fired and trail are history    *)
(* variables: the last call, the object before it, and what it fired.      *)
(*                                                                         *)
(* Lengths are integers.  The GestureEvent payload (translation, velocity, *)
(* scale) is not modelled, hence neither are the fields read only to build *)
(* it (PanRecognizer::prevX_/prevY_/prevTimeMs_, TouchPoint::lastTimeMs).  *)
(***************************************************************************)
EXTENDS Integers, Sequences, FiniteSets, TLC

VARIABLES
    now,      \* steady_clock reading in ms (GestureRecognizer::nowMs)
    down,     \* pointer ids the platform currently reports as touching
    pan,      \* a PanRecognizer
    tap,      \* a TapRecognizer
    pinch,    \* a PinchRecognizer
    tree,     \* the node tree the dispatcher hit-tests (SkiaNodeTree)
    disp,     \* the TouchDispatcher
    eng,      \* a ScrollEngine
    mgr,      \* the ScrollEngineManager
    ticker,   \* the AnimationTicker
    frame,    \* the runtime's queues, and history: the steps of the last onVsync
    obs,      \* history: the tap sequence as the platform's events define it
    lastOp,   \* history: the last handler call and its arguments
    pre,      \* history: the object the last call acted on, before the call
    fired,    \* history: user callbacks invoked by the last call, in order
    trail,    \* history: values assigned to `state` by the last call, in order
    count     \* history: onStart / onEnd invocations since the last began

vars == <<now, down, pan, tap, pinch, tree, disp, eng, mgr, ticker, frame, obs,
          lastOp, pre, fired, trail, count>>

\* ------------------------------------------------------------------ bounds
MaxPointer == 2

\* The clock advances in steps of ClockStep ms, MaxClockSteps times at most.
ClockStep == 150
MaxClockSteps == 3

Pointers == 1..MaxPointer

\* Touch positions offered to the pan recognizer.
PanPoints == {<<0, 0>>, <<5, 5>>, <<10, 0>>, <<20, 0>>}

\* Values offered to setGestureConfig(gid, "activationThreshold", value).
PanThresholds == {10, 18}

\* Touch positions offered to the tap recognizer: (9,12) is 15 from (0,0).
TapPoints == {<<0, 0>>, <<9, 12>>, <<0, 16>>}

\* Touch positions offered to the pinch recognizer (integer distances).
PinchPoints == {<<0, 0>>, <<3, 4>>, <<6, 8>>}

\* setGestureConfig(gid, "numberOfTaps", v) is offered v in 1..MaxRequiredTaps.
MaxRequiredTaps == 2

\* attachGesture is called at most MaxGestures times.
MaxGestures == 2

\* setCallback is called at most MaxCallbacks times.
MaxCallbacks == 2

\* The press clock advances PressClockStep ms at a time, MaxPressClockSteps
\* times at most.
PressClockStep == 250

MaxPressClockSteps == 2

\* Touch positions offered to dispatchTouch: on node 4, on nodes 4 and 5
\* (5 is in front), and on no touchable node.
CapturePoints == {<<10, 90>>, <<50, 90>>, <<10, 10>>}

\* Nodes and types offered to attachGesture ("swipe" is not a type).
AttachNodes == {4, 5}

AttachTypes == {"pan", "swipe"}

\* The gesture table alone: types, callback events and config keys offered
\* ("swipe", "onTap" and "speed" are none).
TableTypes == {"pan", "tap", "swipe"}

TableEvents == {"onStart", "onTap"}

TableKeys == {"numberOfTaps", "speed"}

\* Touch positions of the press scenarios: on node 3 when node 2 is
\* scrolled by 50, and two positions 5 units apart on node 3 when node 2 is
\* not scrolled.
PressPoints == {<<10, 10>>, <<10, 70>>, <<10, 75>>}

PressNodes == {3}

ScrollOffsets == {0, 50}

\* ScrollEngine: touch positions in px/100 on the diagonal, the time between
\* two moves in ms, the frame period, and how much is done to one engine.
ScrollPoints == {<<0, 0>>, <<4000, 4000>>}

TouchDelay == 10

TouchDeltas == {TouchDelay, 200}

SnapIntervals == 5000

\* A deceleration rate passed as a number, in thousandths.
SlowRate == 985

MaxScrollSetups == 2

MaxTouches == 4

\* The frame period in ms.
FrameMs == 16

\* Hit-testing alone: the coordinates probed on each axis, the nodes that
\* are hidden and the nodes without touchable that get a callback entry.
HitCoords == {10, 50, 70, 90, 110}

HideNodes == {2, 5}

HitCallbackNodes == {1, 2}

\* AnimationTicker alone: the node animated (9 is no node), the target, the
\* durations in ms, the easing names, and how many animations and frames.
AnimNodes == {2, 9}

AnimTarget == 50

AnimDurations == {0, 40}

AnimEasings == {"linear", "default"}

MaxAnimations == 2

MaxFrames == 4

\* The runtime: the nodes offered to __scrollCreate (9 is no node), the
\* scroll nodes of the tree, a scrollTo target that the spring reaches in one
\* step and one that it does not, in px/100, and how much is done.
FrameNodes == {2, 9}

ScrollNodeIds == {2}

NearTarget == 30

FarTarget == 4000

MaxEngines == 2

MaxCalls == 3

MaxVsyncs == 2

TaskBodies == {"animate", "scrollTo"}

ScrollCallbackNames == {"onScroll", "onScrollEnd"}

\* ScrollEngine with scrollTo and ticks at any phase: the points scrollTo is
\* given (px/100), the gaps between tick timestamps (ms), and the calls
\* other than touches and the ticks of a running animation.
ScrollGoals == {<<3000, 4000>>, <<-500, 50000>>}

\* The ticks within which an animated scrollTo comes to rest.
MaxSnapTicks == 60

HitchMs == 100

TickGaps == {0, FrameMs, HitchMs}

MaxLateCalls == 1

\* Pan, pinch and rotation handed the same events: three pointers, and two
\* positions 10 apart (the pan's default threshold).
ManyPointers == {1, 2, 3}

PairPoints == {<<0, 0>>, <<6, 8>>}

\* ScrollEngine, a touch beginning in every phase: the pointer and touches.
BeganPointers == {1}

MaxBeganTouches == 5

\* A slow drag: the y of its touches (px/100), TouchDelay apart.
SlowDragYs == {4000, 3800, 3600}

\* A timing animation alone: the values it starts from and goes to, the
\* durations (ms), the gaps between the timestamps of its ticks (ms), and the
\* latest timestamp.
TimingFroms == {0, 80}

TimingDurations == {-10, 0, 40}

TimingGaps == {0, FrameMs, 30}

MaxTimingMs == 120

\* springStep alone: the offsets (px/100), velocities ((px/10)/sec), targets
\* and steps (ms/100) a run starts from, the calls a run may make, and the
\* time within which a run settles.
SpringOffsets == {-10000, 60, 10000, 50000}

SpringVelocities == {0, -30000, 30000}

SpringTargets == {0, 5000}

SpringSteps == {1, 100, 1667, 6400}

MinSpringStep == 100

MaxSpringStep == 6400

MaxSpringCalls == 800

MaxSettleMs == 700

\* decelerationStep alone: the bounds, offsets, velocities, steps and rates a
\* run starts from, and the calls a run may make.
DecelerationMax == 200000

DecelerationOffsets == {100, 199990}

DecelerationVelocities == {0, 210, -210, 30000, -30000}

DecelerationSteps == {1, 200, 1667, 3200}

\* The rates are DECELERATION_RATE_NORMAL and DECELERATION_RATE_FAST.
DecelerationRates == {998, 990}

MinDecelerationStep == 200

MaxDecelerationCalls == 1400

\* VelocityTracker alone: the timestamps offered, in ms from the latest
\* timestamp offered, the speed of the touch in px/100 per ms, and the latest
\* timestamp there may be.
TrackerSteps == {5, 60, 155, 0, -200}

TrackerRate == 20

MaxTrackerMs == 160

\* ------------------------------------------------------ GestureRecognizer
GestureCallbackNames == {"onStart", "onUpdate", "onEnd"}

\* fireStart / fireUpdate / fireEnd: the callback is invoked when it is set.
FireIf(cbs, name) == IF name \in cbs THEN <<name>> ELSE <<>>

\* TouchPoint as the pan and tap recognizers use it.
NoTouch == [pointerId |-> 0, startX |-> 0, startY |-> 0,
            startTimeMs |-> 0, active |-> FALSE]

Result(r, f, t) == [rec |-> r, fired |-> f, trail |-> t]

\* ---------------------------------------------------------- PanRecognizer
DefaultActivationThreshold == 10

PanNew == [state |-> "Possible",
           activationThreshold |-> DefaultActivationThreshold,
           touch |-> NoTouch,
           cbs |-> {}]

\* (mutant of PanReached: the threshold itself does not activate)
PanReachedStrict(dx, dy, threshold) ==
    \/ threshold < 0
    \/ dx * dx + dy * dy > threshold * threshold

\* dist >= activationThreshold, with dist = sqrt(dx*dx + dy*dy) >= 0.
PanReached(dx, dy, threshold) ==
    \/ threshold <= 0
    \/ dx * dx + dy * dy >= threshold * threshold

PanBegan(r, x, y, pointerId) ==
    Result([r EXCEPT !.touch = [pointerId |-> pointerId,
                                startX |-> x, startY |-> y,
                                startTimeMs |-> 0, active |-> TRUE],
                     !.state = "Possible"],
           <<>>, <<"Possible">>)

PanMoved(r, x, y, pointerId) ==
    IF ~r.touch.active \/ r.touch.pointerId # pointerId
    THEN Result(r, <<>>, <<>>)
    ELSE LET dx == x - r.touch.startX
             dy == y - r.touch.startY
         IN  IF r.state = "Possible" /\ PanReached(dx, dy, r.activationThreshold)
             THEN Result([r EXCEPT !.state = "Changed"],
                         FireIf(r.cbs, "onStart"), <<"Began", "Changed">>)
             ELSE IF r.state = "Changed"
             THEN Result(r, FireIf(r.cbs, "onUpdate"), <<>>)
             ELSE Result(r, <<>>, <<>>)

\* (mutant of PanReleased: the pointer id is not compared)
PanReleasedAnyPointer(r, phase, x, y, pointerId) ==
    IF ~r.touch.active
    THEN Result(r, <<>>, <<>>)
    ELSE LET final == IF phase = 2 THEN "Ended" ELSE "Cancelled"
         IN  Result([r EXCEPT !.touch.active = FALSE, !.state = final],
                    IF r.state \in {"Changed", "Began"}
                    THEN FireIf(r.cbs, "onEnd") ELSE <<>>,
                    <<final>>)

PanReleased(r, phase, x, y, pointerId) ==
    IF ~r.touch.active \/ r.touch.pointerId # pointerId
    THEN Result(r, <<>>, <<>>)
    ELSE LET final == IF phase = 2 THEN "Ended" ELSE "Cancelled"
         IN  Result([r EXCEPT !.touch.active = FALSE, !.state = final],
                    IF r.state \in {"Changed", "Began"}
                    THEN FireIf(r.cbs, "onEnd") ELSE <<>>,
                    <<final>>)

PanOnTouchEvent(r, phase, x, y, pointerId) ==
    CASE phase = 0 -> PanBegan(r, x, y, pointerId)
      [] phase = 1 -> PanMoved(r, x, y, pointerId)
      [] phase \in {2, 3} -> PanReleased(r, phase, x, y, pointerId)
      [] OTHER -> Result(r, <<>>, <<>>)

\* ---------------------------------------------------------- TapRecognizer
DefaultRequiredTaps == 1
DefaultMaxDistance == 15
DefaultMaxDurationMs == 300
DefaultMaxDelayMs == 300

TapNew == [state |-> "Possible",
           requiredTaps |-> DefaultRequiredTaps,
           maxDistance |-> DefaultMaxDistance,
           maxDurationMs |-> DefaultMaxDurationMs,
           maxDelayMs |-> DefaultMaxDelayMs,
           touch |-> NoTouch,
           tapCount |-> 0,
           lastTapTimeMs |-> 0,
           cbs |-> {}]

\* sqrt(dx*dx + dy*dy) > maxDistance
TapTooFar(dx, dy, maxDistance) ==
    \/ maxDistance < 0
    \/ dx * dx + dy * dy > maxDistance * maxDistance

\* (mutant of TapBegan: the count never expires)
TapBeganNoExpiry(r, x, y, pointerId, t) ==
    Result([r EXCEPT !.touch = [pointerId |-> pointerId,
                                startX |-> x, startY |-> y,
                                startTimeMs |-> t, active |-> TRUE]],
           <<>>, <<>>)

\* began: overwrite the touch, drop a count older than maxDelayMs.
TapBegan(r, x, y, pointerId, t) ==
    LET stale == r.tapCount > 0 /\ t - r.lastTapTimeMs > r.maxDelayMs
    IN  Result([r EXCEPT !.touch = [pointerId |-> pointerId,
                                    startX |-> x, startY |-> y,
                                    startTimeMs |-> t, active |-> TRUE],
                         !.tapCount = IF stale THEN 0 ELSE @],
               <<>>, <<>>)

\* (mutant of TapMoved: the failed touch stays active)
TapMovedKeepsActive(r, x, y, pointerId) ==
    IF ~r.touch.active \/ r.touch.pointerId # pointerId
    THEN Result(r, <<>>, <<>>)
    ELSE IF TapTooFar(x - r.touch.startX, y - r.touch.startY, r.maxDistance)
    THEN Result([r EXCEPT !.tapCount = 0, !.state = "Failed"],
                <<>>, <<"Failed">>)
    ELSE Result(r, <<>>, <<>>)

TapMoved(r, x, y, pointerId) ==
    IF ~r.touch.active \/ r.touch.pointerId # pointerId
    THEN Result(r, <<>>, <<>>)
    ELSE IF TapTooFar(x - r.touch.startX, y - r.touch.startY, r.maxDistance)
    THEN Result([r EXCEPT !.touch.active = FALSE, !.tapCount = 0,
                          !.state = "Failed"],
                <<>>, <<"Failed">>)
    ELSE Result(r, <<>>, <<>>)

\* (mutant of TapEnded: the counter is not cleared by the tap that ends)
TapEndedKeepsCount(r, x, y, pointerId, t) ==
    IF ~r.touch.active \/ r.touch.pointerId # pointerId
    THEN Result(r, <<>>, <<>>)
    ELSE IF t - r.touch.startTimeMs > r.maxDurationMs
    THEN Result([r EXCEPT !.touch.active = FALSE, !.tapCount = 0,
                          !.state = "Failed"],
                <<>>, <<"Failed">>)
    ELSE IF r.tapCount + 1 >= r.requiredTaps
    THEN Result([r EXCEPT !.touch.active = FALSE, !.tapCount = @ + 1,
                          !.lastTapTimeMs = t, !.state = "Ended"],
                FireIf(r.cbs, "onEnd"), <<"Ended">>)
    ELSE Result([r EXCEPT !.touch.active = FALSE, !.tapCount = @ + 1,
                          !.lastTapTimeMs = t],
                <<>>, <<>>)

TapEnded(r, x, y, pointerId, t) ==
    IF ~r.touch.active \/ r.touch.pointerId # pointerId
    THEN Result(r, <<>>, <<>>)
    ELSE IF t - r.touch.startTimeMs > r.maxDurationMs
    THEN Result([r EXCEPT !.touch.active = FALSE, !.tapCount = 0,
                          !.state = "Failed"],
                <<>>, <<"Failed">>)
    ELSE IF r.tapCount + 1 >= r.requiredTaps
    THEN Result([r EXCEPT !.touch.active = FALSE, !.tapCount = 0,
                          !.lastTapTimeMs = t, !.state = "Ended"],
                FireIf(r.cbs, "onEnd"), <<"Ended">>)
    ELSE Result([r EXCEPT !.touch.active = FALSE, !.tapCount = @ + 1,
                          !.lastTapTimeMs = t],
                <<>>, <<>>)

TapCancelled(r) ==
    Result([r EXCEPT !.touch.active = FALSE, !.tapCount = 0,
                     !.state = "Cancelled"],
           <<>>, <<"Cancelled">>)

TapOnTouchEvent(r, phase, x, y, pointerId, t) ==
    CASE phase = 0 -> TapBegan(r, x, y, pointerId, t)
      [] phase = 1 -> TapMoved(r, x, y, pointerId)
      [] phase = 2 -> TapEnded(r, x, y, pointerId, t)
      [] phase = 3 -> TapCancelled(r)
      [] OTHER -> Result(r, <<>>, <<>>)

\* -------------------------------------------------------- PinchRecognizer
\* std::sqrt on the squared distances of the positions offered (all squares).
Sqrt(n) == CHOOSE r \in 0..n : r * r <= n /\ n < (r + 1) * (r + 1)

PinchNoTouch == [pointerId |-> 0, x |-> 0, y |-> 0, active |-> FALSE]

PinchNew == [state |-> "Possible",
             touch1 |-> PinchNoTouch,
             touch2 |-> PinchNoTouch,
             numActive |-> 0,
             initialDist |-> 1,
             cbs |-> {}]

PinchDistance(a, b) ==
    Sqrt((a.x - b.x) * (a.x - b.x) + (a.y - b.y) * (a.y - b.y))

PinchUpdateTouch(r, pid, x, y) ==
    LET hit(t) == IF t.active /\ t.pointerId = pid
                  THEN [t EXCEPT !.x = x, !.y = y] ELSE t
    IN  [r EXCEPT !.touch1 = hit(@), !.touch2 = hit(@)]

\* (mutant of PinchRemoveTouch: the count of active touches is not lowered)
PinchRemoveTouchNoCount(r, pid) ==
    IF r.touch1.active /\ r.touch1.pointerId = pid
    THEN [r EXCEPT !.touch1.active = FALSE]
    ELSE IF r.touch2.active /\ r.touch2.pointerId = pid
    THEN [r EXCEPT !.touch2.active = FALSE]
    ELSE r

PinchRemoveTouch(r, pid) ==
    IF r.touch1.active /\ r.touch1.pointerId = pid
    THEN [r EXCEPT !.touch1.active = FALSE, !.numActive = @ - 1]
    ELSE IF r.touch2.active /\ r.touch2.pointerId = pid
    THEN [r EXCEPT !.touch2.active = FALSE, !.numActive = @ - 1]
    ELSE r

\* began: the slot is chosen by numActive_ alone; two active touches start.
PinchBegan(r, x, y, pointerId) ==
    LET t == [pointerId |-> pointerId, x |-> x, y |-> y, active |-> TRUE]
        r1 == IF r.numActive >= 2 THEN r
              ELSE IF r.numActive = 0
              THEN [r EXCEPT !.touch1 = t, !.numActive = @ + 1]
              ELSE [r EXCEPT !.touch2 = t, !.numActive = @ + 1]
        d == PinchDistance(r1.touch1, r1.touch2)
    IN  IF r1.numActive = 2
        THEN Result([r1 EXCEPT !.initialDist = IF d < 1 THEN 1 ELSE d,
                               !.state = "Changed"],
                    FireIf(r.cbs, "onStart"), <<"Began", "Changed">>)
        ELSE Result(r1, <<>>, <<>>)

PinchMoved(r, x, y, pointerId) ==
    LET r1 == PinchUpdateTouch(r, pointerId, x, y)
    IN  IF r1.state = "Changed" /\ r1.numActive = 2
        THEN Result(r1, FireIf(r.cbs, "onUpdate"), <<>>)
        ELSE Result(r1, <<>>, <<>>)

PinchReleased(r, pointerId) ==
    IF r.state = "Changed" /\ r.numActive = 2
    THEN Result(PinchRemoveTouch([r EXCEPT !.state = "Ended"], pointerId),
                FireIf(r.cbs, "onEnd"), <<"Ended">>)
    ELSE Result(PinchRemoveTouch(r, pointerId), <<>>, <<>>)

PinchOnTouchEvent(r, phase, x, y, pointerId) ==
    CASE phase = 0 -> PinchBegan(r, x, y, pointerId)
      [] phase = 1 -> PinchMoved(r, x, y, pointerId)
      [] phase \in {2, 3} -> PinchReleased(r, pointerId)
      [] OTHER -> Result(r, <<>>, <<>>)

\* ---------------------------------------------------- RotationRecognizer
\* An angle is kept as the argument pair <<dy, dx>> of std::atan2; the
\* initial 0 is atan2(0, 1).
RotationAngle(a, b) == <<b.y - a.y, b.x - a.x>>

RotationNew == [state |-> "Possible",
                touch1 |-> PinchNoTouch,
                touch2 |-> PinchNoTouch,
                numActive |-> 0,
                initialAngle |-> <<0, 1>>,
                cbs |-> {}]

\* (mutant of RotationBegan: the touch is stored in the slot that is free)
RotationBeganFreeSlot(r, x, y, pointerId) ==
    LET t == [pointerId |-> pointerId, x |-> x, y |-> y, active |-> TRUE]
        r1 == IF r.numActive >= 2 THEN r
              ELSE IF ~r.touch1.active
              THEN [r EXCEPT !.touch1 = t, !.numActive = @ + 1]
              ELSE [r EXCEPT !.touch2 = t, !.numActive = @ + 1]
    IN  IF r1.numActive = 2
        THEN Result([r1 EXCEPT !.initialAngle = RotationAngle(r1.touch1, r1.touch2),
                               !.state = "Changed"],
                    FireIf(r.cbs, "onStart"), <<"Began", "Changed">>)
        ELSE Result(r1, <<>>, <<>>)

RotationBegan(r, x, y, pointerId) ==
    LET t == [pointerId |-> pointerId, x |-> x, y |-> y, active |-> TRUE]
        r1 == IF r.numActive >= 2 THEN r
              ELSE IF r.numActive = 0
              THEN [r EXCEPT !.touch1 = t, !.numActive = @ + 1]
              ELSE [r EXCEPT !.touch2 = t, !.numActive = @ + 1]
    IN  IF r1.numActive = 2
        THEN Result([r1 EXCEPT !.initialAngle = RotationAngle(r1.touch1, r1.touch2),
                               !.state = "Changed"],
                    FireIf(r.cbs, "onStart"), <<"Began", "Changed">>)
        ELSE Result(r1, <<>>, <<>>)

RotationUpdateTouch(r, pid, x, y) ==
    LET hit(t) == IF t.active /\ t.pointerId = pid
                  THEN [t EXCEPT !.x = x, !.y = y] ELSE t
    IN  [r EXCEPT !.touch1 = hit(@), !.touch2 = hit(@)]

RotationRemoveTouch(r, pid) ==
    IF r.touch1.active /\ r.touch1.pointerId = pid
    THEN [r EXCEPT !.touch1.active = FALSE, !.numActive = @ - 1]
    ELSE IF r.touch2.active /\ r.touch2.pointerId = pid
    THEN [r EXCEPT !.touch2.active = FALSE, !.numActive = @ - 1]
    ELSE r

RotationMoved(r, x, y, pointerId) ==
    LET r1 == RotationUpdateTouch(r, pointerId, x, y)
    IN  IF r1.state = "Changed" /\ r1.numActive = 2
        THEN Result(r1, FireIf(r.cbs, "onUpdate"), <<>>)
        ELSE Result(r1, <<>>, <<>>)

RotationReleased(r, pointerId) ==
    IF r.state = "Changed" /\ r.numActive = 2
    THEN Result(RotationRemoveTouch([r EXCEPT !.state = "Ended"], pointerId),
                FireIf(r.cbs, "onEnd"), <<"Ended">>)
    ELSE Result(RotationRemoveTouch(r, pointerId), <<>>, <<>>)

RotationOnTouchEvent(r, phase, x, y, pointerId) ==
    CASE phase = 0 -> RotationBegan(r, x, y, pointerId)
      [] phase = 1 -> RotationMoved(r, x, y, pointerId)
      [] phase \in {2, 3} -> RotationReleased(r, pointerId)
      [] OTHER -> Result(r, <<>>, <<>>)

\* -------------------------------------------------------- TouchDispatcher
\* std::unordered_map as a function on the set of its keys.
EmptyMap == [k \in {} |-> 0]

MapPut(m, k, v) == [x \in DOMAIN m \cup {k} |-> IF x = k THEN v ELSE m[x]]

MapErase(m, k) == [x \in DOMAIN m \ {k} |-> m[x]]

\* The node tree: the fields TouchDispatcher reads from skia::SkiaNode.
\*   1 root            (0,0)  100 x 100   children 2, 4, 5
\*   2 scroll          (0,0)  100 x 75    child 3, scrolled by scrollY
\*   3 touchable       (0,60) 100 x 20    laid out in the content space of 2
\*   4 touchable       (0,80)  60 x 20
\*   5 touchable      (40,80)  60 x 20    inserted after 4, overlapping it
Node(type, x, y, w, h, touchable, children) ==
    [type |-> type, visible |-> TRUE, display |-> "flex",
     absoluteX |-> x, absoluteY |-> y, width |-> w, height |-> h,
     scrollX |-> 0, scrollY |-> 0, touchable |-> touchable,
     children |-> children]

TreeNew == [n \in 1..5 |->
    CASE n = 1 -> Node("View", 0, 0, 100, 100, FALSE, <<2, 4, 5>>)
      [] n = 2 -> Node("Scroll", 0, 0, 100, 75, FALSE, <<3>>)
      [] n = 3 -> Node("View", 0, 60, 100, 20, TRUE, <<>>)
      [] n = 4 -> Node("View", 0, 80, 60, 20, TRUE, <<>>)
      [] n = 5 -> Node("View", 40, 80, 60, 20, TRUE, <<>>)]

RootId == 1

\* Node id 0 stands for nullptr.
NoNode == 0

InBounds(n, x, y) ==
    /\ x >= n.absoluteX /\ x <= n.absoluteX + n.width
    /\ y >= n.absoluteY /\ y <= n.absoluteY + n.height

DispatcherNew == [callbacks |-> EmptyMap,
                  recognizers |-> EmptyMap,
                  nodeGestures |-> EmptyMap,
                  gesturePointers |-> EmptyMap,
                  nextGestureId |-> 1,
                  activeTouches |-> EmptyMap]

\* hitTestNode: the deepest eligible node at (x, y), children in reverse.
RECURSIVE HitTestNode(_, _, _, _, _)
RECURSIVE HitTestChildren(_, _, _, _, _, _)
HitTestChildren(t, d, kids, i, x, y) ==
    IF i < 1 THEN NoNode
    ELSE LET hit == HitTestNode(t, d, kids[i], x, y)
         IN  IF hit # NoNode THEN hit
             ELSE HitTestChildren(t, d, kids, i - 1, x, y)

\* (mutant of HitTestNode: the children of a scroll container are tested at
\* the viewport point itself)
HitTestNodeUnscrolled(t, d, id, x, y) ==
    LET n == t[id]
    IN  IF ~n.visible THEN NoNode
        ELSE IF n.display = "none" THEN NoNode
        ELSE IF ~InBounds(n, x, y) THEN NoNode
        ELSE LET hit == HitTestChildren(t, d, n.children, Len(n.children), x, y)
             IN  IF hit # NoNode THEN hit
                 ELSE IF n.touchable \/ id \in DOMAIN d.callbacks THEN id
                 ELSE NoNode

\* (mutant of HitTestNode: an invisible node is passed through to its
\* children)
HitTestNodeThroughHidden(t, d, id, x, y) ==
    LET n == t[id]
    IN  IF n.display = "none" THEN NoNode
        ELSE IF ~InBounds(n, x, y) THEN NoNode
        ELSE LET childX == IF n.type = "Scroll" THEN x + n.scrollX ELSE x
                 childY == IF n.type = "Scroll" THEN y + n.scrollY ELSE y
                 hit == HitTestChildren(t, d, n.children, Len(n.children),
                                        childX, childY)
             IN  IF hit # NoNode THEN hit
                 ELSE IF ~n.visible THEN NoNode
                 ELSE IF n.touchable \/ id \in DOMAIN d.callbacks THEN id
                 ELSE NoNode

HitTestNode(t, d, id, x, y) ==
    LET n == t[id]
    IN  IF ~n.visible THEN NoNode
        ELSE IF n.display = "none" THEN NoNode
        ELSE IF ~InBounds(n, x, y) THEN NoNode
        ELSE LET childX == IF n.type = "Scroll" THEN x + n.scrollX ELSE x
                 childY == IF n.type = "Scroll" THEN y + n.scrollY ELSE y
                 hit == HitTestChildren(t, d, n.children, Len(n.children),
                                        childX, childY)
             IN  IF hit # NoNode THEN hit
                 ELSE IF n.touchable \/ id \in DOMAIN d.callbacks THEN id
                 ELSE NoNode

HitTest(t, d, x, y) == HitTestNode(t, d, RootId, x, y)

\* A recognizer as recognizers_ holds it: its type and its object.
RecognizerOnTouchEvent(g, phase, x, y, pointerId, t) ==
    CASE g.type = "pan" -> PanOnTouchEvent(g.obj, phase, x, y, pointerId)
      [] g.type = "pinch" -> PinchOnTouchEvent(g.obj, phase, x, y, pointerId)
      [] g.type = "rotation" ->
             RotationOnTouchEvent(g.obj, phase, x, y, pointerId)
      [] g.type = "tap" -> TapOnTouchEvent(g.obj, phase, x, y, pointerId, t)

\* dispatchToGestures: every recognizer of the node gets the event, in the
\* order of nodeGestures_[hitNodeId].  delivered lists the gesture ids.
Reacted(acc, gid, res) ==
    [recognizers |-> [acc.recognizers EXCEPT ![gid].obj = res.rec],
     fired |-> acc.fired \o res.fired,
     delivered |-> Append(acc.delivered, gid)]

RECURSIVE DispatchToList(_, _, _, _, _, _, _, _)
DispatchToList(acc, gids, i, phase, x, y, pointerId, t) ==
    IF i > Len(gids) THEN acc
    ELSE DispatchToList(
             IF gids[i] \notin DOMAIN acc.recognizers THEN acc
             ELSE Reacted(acc, gids[i],
                          RecognizerOnTouchEvent(acc.recognizers[gids[i]],
                                                 phase, x, y, pointerId, t)),
             gids, i + 1, phase, x, y, pointerId, t)

DispatchToGestures(d, phase, x, y, pointerId, hitNodeId, t) ==
    IF hitNodeId \notin DOMAIN d.nodeGestures
    THEN [recognizers |-> d.recognizers, fired |-> <<>>, delivered |-> <<>>]
    ELSE DispatchToList([recognizers |-> d.recognizers, fired |-> <<>>,
                         delivered |-> <<>>],
                        d.nodeGestures[hitNodeId], 1, phase, x, y, pointerId, t)

\* dispatchTouch, first part: routing to the gesture recognizers.
Routed(d, pointers, res) ==
    [d |-> [d EXCEPT !.recognizers = res.recognizers,
                     !.gesturePointers = pointers],
     fired |-> res.fired, delivered |-> res.delivered]

RouteBegan(d, x, y, pointerId, target, t) ==
    IF target # NoNode /\ target \in DOMAIN d.nodeGestures
    THEN Routed(d, MapPut(d.gesturePointers, pointerId, target),
                DispatchToGestures(
                    [d EXCEPT !.gesturePointers = MapPut(@, pointerId, target)],
                    0, x, y, pointerId, target, t))
    ELSE [d |-> d, fired |-> <<>>, delivered |-> <<>>]

\* (mutant of RouteToGestures: every phase is routed to the node under the
\* event's own position instead of the captured node)
RouteToGesturesByPosition(tr, d, phase, x, y, pointerId, t) ==
    RouteBegan(IF phase \in {2, 3}
               THEN [d EXCEPT !.gesturePointers = MapErase(@, pointerId)]
               ELSE d,
               x, y, pointerId, HitTest(tr, d, x, y), t)

RouteToGestures(tr, d, phase, x, y, pointerId, t) ==
    IF phase = 0
    THEN RouteBegan(d, x, y, pointerId, HitTest(tr, d, x, y), t)
    ELSE IF pointerId \in DOMAIN d.gesturePointers
    THEN Routed(d, IF phase \in {2, 3}
                   THEN MapErase(d.gesturePointers, pointerId)
                   ELSE d.gesturePointers,
                DispatchToGestures(d, phase, x, y, pointerId,
                                   d.gesturePointers[pointerId], t))
    ELSE [d |-> d, fired |-> <<>>, delivered |-> <<>>]

\* A press callback of a node is invoked when the node has an entry and the
\* callback is set in it.
PressFire(d, nodeId, name) ==
    IF nodeId \in DOMAIN d.callbacks /\ name \in d.callbacks[nodeId]
    THEN <<name>> ELSE <<>>

HandleTouchBegan(tr, d, x, y, pointerId, t) ==
    LET target == HitTest(tr, d, x, y)
    IN  IF target = NoNode THEN [d |-> d, fired |-> <<>>]
        ELSE [d |-> [d EXCEPT !.activeTouches =
                         MapPut(@, pointerId,
                                [nodeId |-> target, startX |-> x, startY |-> y,
                                 startTimeMs |-> t])],
              fired |-> PressFire(d, target, "onPressIn")]

PressCancelDistance2 == 100

\* (mutant of HandleTouchMoved: the press is kept after onPressOut)
HandleTouchMovedKeeps(d, x, y, pointerId) ==
    IF pointerId \notin DOMAIN d.activeTouches THEN [d |-> d, fired |-> <<>>]
    ELSE LET touch == d.activeTouches[pointerId]
             dx == x - touch.startX
             dy == y - touch.startY
         IN  IF dx * dx + dy * dy > PressCancelDistance2
             THEN [d |-> d, fired |-> PressFire(d, touch.nodeId, "onPressOut")]
             ELSE [d |-> d, fired |-> <<>>]

HandleTouchMoved(d, x, y, pointerId) ==
    IF pointerId \notin DOMAIN d.activeTouches THEN [d |-> d, fired |-> <<>>]
    ELSE LET touch == d.activeTouches[pointerId]
             dx == x - touch.startX
             dy == y - touch.startY
         IN  IF dx * dx + dy * dy > PressCancelDistance2
             THEN [d |-> [d EXCEPT !.activeTouches = MapErase(@, pointerId)],
                   fired |-> PressFire(d, touch.nodeId, "onPressOut")]
             ELSE [d |-> d, fired |-> <<>>]

LongPressMs == 500

\* (mutant of HandleTouchEnded: the release position is not looked at)
HandleTouchEndedAnywhere(tr, d, x, y, pointerId, t) ==
    IF pointerId \notin DOMAIN d.activeTouches THEN [d |-> d, fired |-> <<>>]
    ELSE LET touch == d.activeTouches[pointerId]
             nodeId == touch.nodeId
             d1 == [d EXCEPT !.activeTouches = MapErase(@, pointerId)]
             heldMs == t - touch.startTimeMs
         IN  IF nodeId \notin DOMAIN d.callbacks THEN [d |-> d1, fired |-> <<>>]
             ELSE [d |-> d1,
                   fired |-> PressFire(d, nodeId, "onPressOut") \o
                     (IF heldMs >= LongPressMs
                         /\ "onLongPress" \in d.callbacks[nodeId]
                      THEN <<"onLongPress">>
                      ELSE PressFire(d, nodeId, "onPress"))]

\* (mutant of HandleTouchEnded: a hold of exactly LongPressMs is not long)
HandleTouchEndedLate(tr, d, x, y, pointerId, t) ==
    IF pointerId \notin DOMAIN d.activeTouches THEN [d |-> d, fired |-> <<>>]
    ELSE LET touch == d.activeTouches[pointerId]
             nodeId == touch.nodeId
             d1 == [d EXCEPT !.activeTouches = MapErase(@, pointerId)]
             heldMs == t - touch.startTimeMs
         IN  IF nodeId \notin DOMAIN d.callbacks THEN [d |-> d1, fired |-> <<>>]
             ELSE [d |-> d1,
                   fired |-> PressFire(d, nodeId, "onPressOut") \o
                     (IF nodeId \in DOMAIN tr /\ InBounds(tr[nodeId], x, y)
                      THEN IF heldMs > LongPressMs
                              /\ "onLongPress" \in d.callbacks[nodeId]
                           THEN <<"onLongPress">>
                           ELSE PressFire(d, nodeId, "onPress")
                      ELSE <<>>)]

HandleTouchEnded(tr, d, x, y, pointerId, t) ==
    IF pointerId \notin DOMAIN d.activeTouches THEN [d |-> d, fired |-> <<>>]
    ELSE LET touch == d.activeTouches[pointerId]
             nodeId == touch.nodeId
             d1 == [d EXCEPT !.activeTouches = MapErase(@, pointerId)]
             heldMs == t - touch.startTimeMs
         IN  IF nodeId \notin DOMAIN d.callbacks THEN [d |-> d1, fired |-> <<>>]
             ELSE [d |-> d1,
                   fired |-> PressFire(d, nodeId, "onPressOut") \o
                     (IF nodeId \in DOMAIN tr /\ InBounds(tr[nodeId], x, y)
                      THEN IF heldMs >= LongPressMs
                              /\ "onLongPress" \in d.callbacks[nodeId]
                           THEN <<"onLongPress">>
                           ELSE PressFire(d, nodeId, "onPress")
                      ELSE <<>>)]

\* (mutant of HandleTouchCancelled: the press is dropped without onPressOut)
HandleTouchCancelledQuiet(d, pointerId) ==
    IF pointerId \notin DOMAIN d.activeTouches THEN [d |-> d, fired |-> <<>>]
    ELSE [d |-> [d EXCEPT !.activeTouches = MapErase(@, pointerId)],
          fired |-> <<>>]

HandleTouchCancelled(d, pointerId) ==
    IF pointerId \notin DOMAIN d.activeTouches THEN [d |-> d, fired |-> <<>>]
    ELSE [d |-> [d EXCEPT !.activeTouches = MapErase(@, pointerId)],
          fired |-> PressFire(d, d.activeTouches[pointerId].nodeId,
                              "onPressOut")]

\* dispatchTouch: gesture routing, then press tracking.
PressHandled(g, h) ==
    [d |-> h.d, fired |-> g.fired \o h.fired, delivered |-> g.delivered]

HandleTouch(tr, d, phase, x, y, pointerId, t) ==
    CASE phase = 0 -> HandleTouchBegan(tr, d, x, y, pointerId, t)
      [] phase = 1 -> HandleTouchMoved(d, x, y, pointerId)
      [] phase = 2 -> HandleTouchEnded(tr, d, x, y, pointerId, t)
      [] phase = 3 -> HandleTouchCancelled(d, pointerId)
      [] OTHER -> [d |-> d, fired |-> <<>>]

RoutedThenHandled(tr, g, phase, x, y, pointerId, t) ==
    PressHandled(g, HandleTouch(tr, g.d, phase, x, y, pointerId, t))

DispatchTouch(tr, d, phase, x, y, pointerId, t) ==
    RoutedThenHandled(tr, RouteToGestures(tr, d, phase, x, y, pointerId, t),
                      phase, x, y, pointerId, t)

\* setCallback: the node gets an entry whatever the event name is.
PressCallbackNames == {"onPressIn", "onPressOut", "onPress", "onLongPress"}

SetCallback(d, nodeId, event) ==
    LET had == IF nodeId \in DOMAIN d.callbacks THEN d.callbacks[nodeId] ELSE {}
    IN  [d EXCEPT !.callbacks =
            MapPut(@, nodeId, IF event \in PressCallbackNames
                              THEN had \cup {event} ELSE had)]

\* attachGesture: the id is consumed before the type is looked at.
NewRecognizer(type) ==
    CASE type = "pan" -> PanNew
      [] type = "pinch" -> PinchNew
      [] type = "rotation" -> RotationNew
      [] type = "tap" -> TapNew

GestureTypes == {"pan", "pinch", "rotation", "tap"}

\* (mutant of AttachGesture: the id is listed for the node before the type is
\* looked at)
AttachGestureListsFirst(d, nodeId, gestureType) ==
    LET gid == d.nextGestureId
        d1 == [d EXCEPT !.nextGestureId = @ + 1,
                        !.nodeGestures = MapPut(@, nodeId,
                            Append(IF nodeId \in DOMAIN d.nodeGestures
                                   THEN d.nodeGestures[nodeId] ELSE <<>>, gid))]
    IN  IF gestureType \notin GestureTypes
        THEN [d |-> d1, result |-> -1]
        ELSE [d |-> [d1 EXCEPT
                  !.recognizers = MapPut(@, gid, [type |-> gestureType,
                                                  nodeId |-> nodeId,
                                                  obj |-> NewRecognizer(gestureType)])],
              result |-> gid]

AttachGesture(d, nodeId, gestureType) ==
    LET gid == d.nextGestureId
        d1 == [d EXCEPT !.nextGestureId = @ + 1]
    IN  IF gestureType \notin GestureTypes
        THEN [d |-> d1, result |-> -1]
        ELSE [d |-> [d1 EXCEPT
                  !.recognizers = MapPut(@, gid, [type |-> gestureType,
                                                  nodeId |-> nodeId,
                                                  obj |-> NewRecognizer(gestureType)]),
                  !.nodeGestures = MapPut(@, nodeId,
                      Append(IF nodeId \in DOMAIN d.nodeGestures
                             THEN d.nodeGestures[nodeId] ELSE <<>>, gid))],
              result |-> gid]

\* setGestureCallback: an unknown gesture id or event name changes nothing.
SetGestureCallback(d, gestureId, event) ==
    IF gestureId \notin DOMAIN d.recognizers THEN d
    ELSE IF event \in GestureCallbackNames
    THEN [d EXCEPT !.recognizers[gestureId].obj.cbs = @ \cup {event}]
    ELSE d

\* setGestureConfig: a key applies to the recognizer type it belongs to.
SetGestureConfig(d, gestureId, key, value) ==
    IF gestureId \notin DOMAIN d.recognizers THEN d
    ELSE LET type == d.recognizers[gestureId].type
         IN  IF key = "numberOfTaps" /\ type = "tap"
             THEN [d EXCEPT !.recognizers[gestureId].obj.requiredTaps = value]
             ELSE IF key = "activationThreshold" /\ type = "pan"
             THEN [d EXCEPT !.recognizers[gestureId].obj.activationThreshold = value]
             ELSE IF key = "maxDistance" /\ type = "tap"
             THEN [d EXCEPT !.recognizers[gestureId].obj.maxDistance = value]
             ELSE d

\* ------------------------------------------------------------ ScrollPhysics
\* A float is kept as an integer: a position in px/100, a velocity in
\* (px/10)/sec, a frame interval in ms/100, a factor (a decay, a friction) in
\* 1/10000, a logarithm in millionths.  Timestamps are whole ms.  Every
\* product stays inside 32 bits.
Hundredths == 100

Tenths == 10

Factor == 10000

Millionths == 1000000

\* n / d rounded to the nearest integer, d > 0.
Round(n, d) == (2 * n + d) \div (2 * d)

Abs(v) == IF v < 0 THEN -v ELSE v

Min(a, b) == IF a < b THEN a ELSE b

Max(a, b) == IF a > b THEN a ELSE b

clampf(v, lo, hi) == IF v < lo THEN lo ELSE IF v > hi THEN hi ELSE v

\* std::exp by its power series; x and the result are factors, |x| < 1.
ExpTerms == 10

RECURSIVE ExpSeries(_, _, _)
ExpSeries(x, k, term) ==
    IF k > ExpTerms \/ term = 0 THEN 0
    ELSE term + ExpSeries(x, k + 1, Round(term * x, k * Factor))

Exp(x) == ExpSeries(x, 1, Factor)

\* std::log of a rate in thousandths, 0 < rate <= 1000, by the series of
\* ln(1 - u).
LogTerms == 6

RECURSIVE LogSeries(_, _, _)
LogSeries(u, k, power) ==
    IF k > LogTerms \/ power = 0 THEN 0
    ELSE -Round(power, k) + LogSeries(u, k + 1, Round(power * u, Millionths))

Log(rate) == LogSeries((1000 - rate) * 1000, 1, (1000 - rate) * 1000)

DECELERATION_RATE_NORMAL == 998

DECELERATION_RATE_FAST == 990

VELOCITY_THRESHOLD == 200

RUBBER_BAND_COEFF == 55

SPRING_OMEGA == 20

SPRING_SETTLE_THRESHOLD == 50

SPRING_VELOCITY_THRESHOLD == 200

HISTORY_WINDOW_MS == 150

MAX_SAMPLES == 20

MIN_SAMPLES == 3

PhysicsResult(offset, velocity, finished) ==
    [offset |-> offset, velocity |-> velocity, finished |-> finished]

\* decelerationStep: friction = rate^dtMs, displacement = the integral of the
\* velocity over the interval.
DecelerationResult(nextOff, nextVel, minOff, maxOff) ==
    IF Abs(nextVel) < VELOCITY_THRESHOLD
    THEN PhysicsResult(clampf(nextOff, minOff, maxOff), 0, TRUE)
    ELSE PhysicsResult(nextOff, nextVel, nextOff < minOff \/ nextOff > maxOff)

\* velocity * (friction - 1) / (lnRate * 1000) px is
\* velocity * (friction - Factor) / lnRate in the units kept.
DecelerationMove(offset, velocity, dtMs, friction, lnRate, minOff, maxOff) ==
    DecelerationResult(
        offset + (IF lnRate # 0
                  THEN -Round(velocity * (friction - Factor), -lnRate)
                  ELSE Round(velocity * dtMs, 1000 * Tenths)),
        Round(velocity * friction, Factor), minOff, maxOff)

\* rate^dtMs
Friction(dtMs, rate) == Exp(Round(dtMs * Log(rate), Factor))

decelerationStepUnclamped(offset, velocity, dtMs, rate, minOff, maxOff) ==
    DecelerationMove(offset, velocity, dtMs, Friction(dtMs, rate), Log(rate),
                     offset - DecelerationMax * 2, offset + DecelerationMax * 2)

decelerationStep(offset, velocity, dtMs, rate, minOff, maxOff) ==
    DecelerationMove(offset, velocity, dtMs,
                     Exp(Round(dtMs * Log(rate), Factor)), Log(rate),
                     minOff, maxOff)

\* springStep: the closed form of a critically damped spring.
SpringResult(nextOff, nextVel, target) ==
    IF Abs(nextOff - target) < SPRING_SETTLE_THRESHOLD
       /\ Abs(nextVel) < SPRING_VELOCITY_THRESHOLD
    THEN PhysicsResult(target, 0, TRUE)
    ELSE PhysicsResult(nextOff, nextVel, FALSE)

\* reach = displacement + C2 * dtSec
SpringMove(reach, C2, decay, target) ==
    SpringResult(Round(reach * decay, Factor) + target,
                 Round((C2 - Round(SPRING_OMEGA * reach, Tenths)) * decay, Factor),
                 target)

SpringFrom(displacement, C2, dtMs, target) ==
    SpringMove(displacement + Round(C2 * dtMs, Factor), C2,
               Exp(-Round(SPRING_OMEGA * dtMs, Tenths)), target)

springStepUndamped(offset, velocity, target, dtMs) ==
    SpringMove(offset - target
                 + Round((velocity + Round(SPRING_OMEGA * (offset - target), Tenths))
                           * dtMs, Factor),
               velocity + Round(SPRING_OMEGA * (offset - target), Tenths),
               Factor, target)

springStep(offset, velocity, target, dtMs) ==
    SpringFrom(offset - target,
               velocity + Round(SPRING_OMEGA * (offset - target), Tenths),
               dtMs, target)

\* rubberBandClamp: delta * c / (1 + absOver * c / viewportSize)
rubberBandClamp(delta, overscroll, viewportSize) ==
    IF viewportSize <= 0 THEN 0
    ELSE Round(delta * RUBBER_BAND_COEFF * Hundredths,
               Factor + Round(Abs(overscroll) * RUBBER_BAND_COEFF * Hundredths,
                              viewportSize))

\* std::round: to the nearest integer, halves away from zero.
RoundHalfAway(n, d) ==
    IF n >= 0 THEN (2 * n + d) \div (2 * d) ELSE -((2 * (-n) + d) \div (2 * d))

\* std::ceil of n / d, d > 0.
Ceil(n, d) == -((-n) \div d)

findSnapTarget(offset, velocity, interval, minOff, maxOff, rate) ==
    IF interval <= 0 THEN clampf(offset, minOff, maxOff)
    ELSE clampf(
        RoundHalfAway(IF Log(rate) # 0 /\ Abs(velocity) > VELOCITY_THRESHOLD
                      THEN offset + Round(velocity * Factor, -Log(rate))
                      ELSE offset,
                      interval) * interval,
        minOff, maxOff)

PAGE_VELOCITY == 3000

PageOf(currentPage, velocity) ==
    IF velocity > PAGE_VELOCITY THEN currentPage + 1
    ELSE IF velocity < -PAGE_VELOCITY THEN currentPage - 1
    ELSE currentPage

findPageTarget(offset, velocity, viewportSize, minOff, maxOff) ==
    IF viewportSize <= 0 THEN clampf(offset, minOff, maxOff)
    ELSE clampf(clampf(PageOf(RoundHalfAway(offset, viewportSize), velocity),
                       0, Ceil(maxOff, viewportSize)) * viewportSize,
                minOff, maxOff)

\* --------------------------------------------------------- VelocityTracker
TrackerNew == [samples |-> <<>>, lastTs |-> 0]

VelSample(timestamp, position) ==
    [timestamp |-> timestamp, position |-> position]

DropOldest(samples) ==
    IF Len(samples) > MAX_SAMPLES THEN Tail(samples) ELSE samples

\* (mutant of addPoint: a timestamp equal to the last one is accepted)
addPointLax(tr, timestamp, position) ==
    IF timestamp < tr.lastTs /\ tr.samples # <<>> THEN tr
    ELSE [samples |-> DropOldest(Append(tr.samples,
                                        VelSample(timestamp, position))),
          lastTs |-> timestamp]

addPoint(tr, timestamp, position) ==
    IF timestamp <= tr.lastTs /\ tr.samples # <<>> THEN tr
    ELSE [samples |-> DropOldest(Append(tr.samples,
                                        VelSample(timestamp, position))),
          lastTs |-> timestamp]

RECURSIVE PruneBefore(_, _)
PruneBefore(samples, cutoff) ==
    IF samples # <<>> /\ samples[1].timestamp < cutoff
    THEN PruneBefore(Tail(samples), cutoff)
    ELSE samples

pruneOld(samples) ==
    IF samples = <<>> THEN samples
    ELSE PruneBefore(samples,
                     samples[Len(samples)].timestamp - HISTORY_WINDOW_MS)

Thousandths == 1000

\* The weight max(0, 1 - age / HISTORY_WINDOW_MS)^2 of a sample, in 1/1000.
Weight(age) ==
    Round(Max(0, HISTORY_WINDOW_MS - age) * Max(0, HISTORY_WINDOW_MS - age)
              * Thousandths,
          HISTORY_WINDOW_MS * HISTORY_WINDOW_MS)

\* The velocity between samples i - 1 and i in (px/10)/sec.
PairVelocity(samples, i) ==
    Round((samples[i].position - samples[i - 1].position) * Hundredths,
          samples[i].timestamp - samples[i - 1].timestamp)

PairCounts(samples, i) ==
    2 * (samples[i].timestamp - samples[i - 1].timestamp) > 1

PairWeight(samples, i) ==
    Weight(samples[Len(samples)].timestamp - samples[i].timestamp)

RECURSIVE SumW(_, _)
SumW(samples, i) ==
    IF i > Len(samples) THEN 0
    ELSE (IF PairCounts(samples, i) THEN PairWeight(samples, i) ELSE 0)
         + SumW(samples, i + 1)

RECURSIVE SumWV(_, _)
SumWV(samples, i) ==
    IF i > Len(samples) THEN 0
    ELSE (IF PairCounts(samples, i)
          THEN PairVelocity(samples, i) * PairWeight(samples, i) ELSE 0)
         + SumWV(samples, i + 1)

VelocityOf(samples) ==
    IF Len(samples) < MIN_SAMPLES THEN 0
    ELSE IF SumW(samples, 2) > 0
    THEN RoundHalfAway(SumWV(samples, 2), SumW(samples, 2))
    ELSE 0

\* (mutant of getVelocity: the samples are not pruned first)
getVelocityUnpruned(tr) == VelocityOf(tr.samples)

\* getVelocity prunes the samples and returns the velocity of what is left.
getVelocity(tr) == VelocityOf(pruneOld(tr.samples))

reset(tr) == TrackerNew

Pruned(tr) == [tr EXCEPT !.samples = pruneOld(@)]

\* ------------------------------------------------------------ ScrollEngine
\* The node of the engine: a 100 x 100 px viewport over one 300 x 300 px
\* child, not horizontal, scroll enabled.
ScrollNodeNew ==
    [width |-> 10000, height |-> 10000,
     children |-> <<[x |-> 0, y |-> 0, width |-> 30000, height |-> 30000]>>,
     horizontal |-> FALSE, scrollEnabled |-> TRUE,
     scrollX |-> 0, scrollY |-> 0]

NoPointer == -1

\* ScrollEngineManager::create
ScrollEngineNew ==
    [node |-> ScrollNodeNew,
     horizontal |-> ScrollNodeNew.horizontal, bounces |-> TRUE,
     scrollEnabled |-> ScrollNodeNew.scrollEnabled, pagingEnabled |-> FALSE,
     snapInterval |-> 0, decelerationRate |-> DECELERATION_RATE_NORMAL,
     cbs |-> {},
     phase |-> "Idle", offsetX |-> 0, offsetY |-> 0,
     velocityX |-> 0, velocityY |-> 0, snapTargetX |-> 0, snapTargetY |-> 0,
     lastTimestamp |-> 0,
     viewportW |-> 0, viewportH |-> 0, contentW |-> 0, contentH |-> 0,
     trackerX |-> TrackerNew, trackerY |-> TrackerNew,
     lastTouchX |-> 0, lastTouchY |-> 0, activePointerId |-> NoPointer]

\* What a handler leaves: the engine and the callbacks it invoked, in order.
Did(e, f) == [e |-> e, fired |-> f]

maxScrollX(e) == Max(0, e.contentW - e.viewportW)

maxScrollY(e) == Max(0, e.contentH - e.viewportH)

isOverscrolled(offset, min, max) == offset < min \/ offset > max

Overscrolled(e) ==
    IF e.horizontal THEN isOverscrolled(e.offsetX, 0, maxScrollX(e))
    ELSE isOverscrolled(e.offsetY, 0, maxScrollY(e))

RECURSIVE MaxExtent(_, _, _)
MaxExtent(children, i, alongX) ==
    IF i > Len(children) THEN 0
    ELSE Max(IF alongX THEN children[i].x + children[i].width
             ELSE children[i].y + children[i].height,
             MaxExtent(children, i + 1, alongX))

updateBoundsFromNode(e) ==
    [e EXCEPT !.viewportW = e.node.width, !.viewportH = e.node.height,
              !.contentW = MaxExtent(e.node.children, 1, TRUE),
              !.contentH = MaxExtent(e.node.children, 1, FALSE)]

cancelAnimation(e) == [e EXCEPT !.phase = "Idle", !.lastTimestamp = 0]

commitOffset(e) ==
    [e EXCEPT !.node.scrollX = e.offsetX, !.node.scrollY = e.offsetY]

applyDelta(e, offset, delta, minOff, maxOff, vpSize) ==
    IF ~e.bounces THEN clampf(offset + delta, minOff, maxOff)
    ELSE IF offset >= minOff /\ offset <= maxOff
    THEN IF offset + delta < minOff
         THEN minOff + rubberBandClamp(delta - (minOff - offset), 0, vpSize)
         ELSE IF offset + delta > maxOff
         THEN maxOff + rubberBandClamp(delta - (maxOff - offset), 0, vpSize)
         ELSE offset + delta
    ELSE offset + rubberBandClamp(
             delta, IF offset < minOff THEN minOff - offset ELSE offset - maxOff,
             vpSize)

\* What onTouchBegan leaves, and the bool it returns.
Returned(d, value) == [e |-> d.e, fired |-> d.fired, returned |-> value]

\* (mutant of onTouchBegan: the trackers keep the samples of the last drag)
onTouchBeganKeepsSamples(e, pointerId, x, y, timestamp) ==
    IF ~e.scrollEnabled THEN Returned(Did(e, <<>>), FALSE)
    ELSE Returned(
             Did(updateBoundsFromNode(
                     [e EXCEPT !.phase = "Dragging", !.lastTimestamp = 0,
                               !.activePointerId = pointerId,
                               !.lastTouchX = x, !.lastTouchY = y,
                               !.trackerX = addPoint(@, timestamp, x),
                               !.trackerY = addPoint(@, timestamp, y)]),
                 FireIf(e.cbs, "onScrollBeginDrag")),
             TRUE)

onTouchBegan(e, pointerId, x, y, timestamp) ==
    IF ~e.scrollEnabled THEN Returned(Did(e, <<>>), FALSE)
    ELSE Returned(
             Did(updateBoundsFromNode(
                     [cancelAnimation(e) EXCEPT
                               !.phase = "Dragging",
                               !.activePointerId = pointerId,
                               !.lastTouchX = x, !.lastTouchY = y,
                               !.trackerX = addPoint(reset(@), timestamp, x),
                               !.trackerY = addPoint(reset(@), timestamp, y)]),
                 FireIf(e.cbs, "onScrollBeginDrag")),
             TRUE)

onTouchMovedAnyPointer(e, pointerId, x, y, timestamp) ==
    IF e.phase # "Dragging" THEN Did(e, <<>>)
    ELSE Did(commitOffset(
                 [e EXCEPT !.trackerX = addPoint(@, timestamp, x),
                           !.trackerY = addPoint(@, timestamp, y),
                           !.lastTouchX = x, !.lastTouchY = y,
                           !.offsetX = IF e.horizontal
                                       THEN applyDelta(e, @, -(x - e.lastTouchX), 0,
                                                       maxScrollX(e), e.viewportW)
                                       ELSE @,
                           !.offsetY = IF e.horizontal THEN @
                                       ELSE applyDelta(e, @, -(y - e.lastTouchY), 0,
                                                       maxScrollY(e), e.viewportH)]),
             FireIf(e.cbs, "onScroll"))

onTouchMoved(e, pointerId, x, y, timestamp) ==
    IF e.phase # "Dragging" \/ pointerId # e.activePointerId THEN Did(e, <<>>)
    ELSE Did(commitOffset(
                 [e EXCEPT !.trackerX = addPoint(@, timestamp, x),
                           !.trackerY = addPoint(@, timestamp, y),
                           !.lastTouchX = x, !.lastTouchY = y,
                           !.offsetX = IF e.horizontal
                                       THEN applyDelta(e, @, -(x - e.lastTouchX), 0,
                                                       maxScrollX(e), e.viewportW)
                                       ELSE @,
                           !.offsetY = IF e.horizontal THEN @
                                       ELSE applyDelta(e, @, -(y - e.lastTouchY), 0,
                                                       maxScrollY(e), e.viewportH)]),
             FireIf(e.cbs, "onScroll"))

startBounce(e) == [e EXCEPT !.phase = "Bouncing", !.lastTimestamp = 0]

startSnap(e, isPaging) ==
    [e EXCEPT !.phase = "Snapping", !.lastTimestamp = 0,
              !.snapTargetX =
                  IF ~e.horizontal THEN e.offsetX
                  ELSE IF isPaging
                  THEN findPageTarget(e.offsetX, e.velocityX, e.viewportW, 0,
                                      maxScrollX(e))
                  ELSE findSnapTarget(e.offsetX, e.velocityX, e.snapInterval, 0,
                                      maxScrollX(e), e.decelerationRate),
              !.snapTargetY =
                  IF e.horizontal THEN e.offsetY
                  ELSE IF isPaging
                  THEN findPageTarget(e.offsetY, e.velocityY, e.viewportH, 0,
                                      maxScrollY(e))
                  ELSE findSnapTarget(e.offsetY, e.velocityY, e.snapInterval, 0,
                                      maxScrollY(e), e.decelerationRate)]

startDeceleration(e) ==
    IF Abs(IF e.horizontal THEN e.velocityX ELSE e.velocityY) < VELOCITY_THRESHOLD
    THEN Did([e EXCEPT !.phase = "Idle"], FireIf(e.cbs, "onScrollEnd"))
    ELSE Did([e EXCEPT !.phase = "Decelerating", !.lastTimestamp = 0], <<>>)

\* (mutant of ReleasePhase: paging is looked at before the overscroll)
ReleasePhasePagingFirst(e) ==
    IF e.pagingEnabled THEN Did(startSnap(e, TRUE), <<>>)
    ELSE IF Overscrolled(e) THEN Did(startBounce(e), <<>>)
    ELSE IF e.snapInterval > 0 THEN Did(startSnap(e, FALSE), <<>>)
    ELSE startDeceleration(e)

\* onTouchEnded, after the velocities are taken: the next phase.
ReleasePhase(e) ==
    IF Overscrolled(e) THEN Did(startBounce(e), <<>>)
    ELSE IF e.pagingEnabled THEN Did(startSnap(e, TRUE), <<>>)
    ELSE IF e.snapInterval > 0 THEN Did(startSnap(e, FALSE), <<>>)
    ELSE startDeceleration(e)

After(f, did) == Did(did.e, f \o did.fired)

onTouchEnded(e, pointerId) ==
    IF e.phase # "Dragging" \/ pointerId # e.activePointerId THEN Did(e, <<>>)
    ELSE After(FireIf(e.cbs, "onScrollEndDrag"),
               ReleasePhase([e EXCEPT !.activePointerId = NoPointer,
                                      !.velocityX = -getVelocity(e.trackerX),
                                      !.velocityY = -getVelocity(e.trackerY),
                                      !.trackerX = Pruned(@),
                                      !.trackerY = Pruned(@)]))

onTouchCancelled(e, pointerId) ==
    IF pointerId # e.activePointerId THEN Did(e, <<>>)
    ELSE IF Overscrolled(e)
    THEN Did(startBounce([e EXCEPT !.activePointerId = NoPointer]), <<>>)
    ELSE Did([e EXCEPT !.activePointerId = NoPointer, !.phase = "Idle"], <<>>)

scrollToUnclamped(e, x, y, animated) ==
    IF ~animated
    THEN Did(commitOffset(
                 [updateBoundsFromNode(cancelAnimation(e)) EXCEPT
                     !.offsetX = x, !.offsetY = y]),
             FireIf(e.cbs, "onScroll") \o FireIf(e.cbs, "onScrollEnd"))
    ELSE Did([updateBoundsFromNode(e) EXCEPT
                 !.snapTargetX = x, !.snapTargetY = y,
                 !.velocityX = 0, !.velocityY = 0,
                 !.phase = "Snapping", !.lastTimestamp = 0],
             <<>>)

scrollTo(e, x, y, animated) ==
    IF ~animated
    THEN Did(commitOffset(
                 [updateBoundsFromNode(cancelAnimation(e)) EXCEPT
                     !.offsetX = clampf(x, 0, maxScrollX(updateBoundsFromNode(e))),
                     !.offsetY = clampf(y, 0, maxScrollY(updateBoundsFromNode(e)))]),
             FireIf(e.cbs, "onScroll") \o FireIf(e.cbs, "onScrollEnd"))
    ELSE Did([updateBoundsFromNode(e) EXCEPT
                 !.snapTargetX = clampf(x, 0, maxScrollX(updateBoundsFromNode(e))),
                 !.snapTargetY = clampf(y, 0, maxScrollY(updateBoundsFromNode(e))),
                 !.velocityX = 0, !.velocityY = 0,
                 !.phase = "Snapping", !.lastTimestamp = 0],
             <<>>)

needsTick(e) == e.phase \notin {"Idle", "Dragging"}

\* A step of the animation: the engine and whether the animation finished.
Stepped(e, finished) == [e |-> e, finished |-> finished]

DecelerationStepped(e, s) ==
    IF ~s.finished THEN Stepped(e, FALSE)
    ELSE IF Overscrolled(e) THEN Stepped(startBounce(e), FALSE)
    ELSE IF e.snapInterval > 0 THEN Stepped(startSnap(e, FALSE), FALSE)
    ELSE Stepped(e, TRUE)

DecelerationApplied(e, s) ==
    DecelerationStepped(
        IF e.horizontal
        THEN [e EXCEPT !.offsetX = s.offset, !.velocityX = s.velocity]
        ELSE [e EXCEPT !.offsetY = s.offset, !.velocityY = s.velocity],
        s)

stepDeceleration(e, dt) ==
    DecelerationApplied(
        e,
        IF e.horizontal
        THEN decelerationStep(e.offsetX, e.velocityX, dt, e.decelerationRate, 0,
                              maxScrollX(e))
        ELSE decelerationStep(e.offsetY, e.velocityY, dt, e.decelerationRate, 0,
                              maxScrollY(e)))

BounceApplied(e, s) ==
    Stepped(IF e.horizontal
            THEN [e EXCEPT !.offsetX = s.offset, !.velocityX = s.velocity]
            ELSE [e EXCEPT !.offsetY = s.offset, !.velocityY = s.velocity],
            s.finished)

\* stepBounce: the spring's target is the offset clamped at this step.
stepBounce(e, dt) ==
    BounceApplied(
        e,
        IF e.horizontal
        THEN springStep(e.offsetX, e.velocityX,
                        clampf(e.offsetX, 0, maxScrollX(e)), dt)
        ELSE springStep(e.offsetY, e.velocityY,
                        clampf(e.offsetY, 0, maxScrollY(e)), dt))

SnapApplied(e, sx, sy) ==
    Stepped([e EXCEPT !.offsetX = sx.offset, !.velocityX = sx.velocity,
                      !.offsetY = sy.offset, !.velocityY = sy.velocity],
            sx.finished /\ sy.finished)

stepSnap(e, dt) ==
    SnapApplied(e, springStep(e.offsetX, e.velocityX, e.snapTargetX, dt),
                springStep(e.offsetY, e.velocityY, e.snapTargetY, dt))

FIRST_FRAME_MS == 1667

MAX_FRAME_MS == 3200

FrameIntervalUnclamped(e, timestamp) ==
    IF e.lastTimestamp > 0
    THEN (timestamp - e.lastTimestamp) * Hundredths
    ELSE FIRST_FRAME_MS

FrameInterval(e, timestamp) ==
    IF e.lastTimestamp > 0
    THEN Min((timestamp - e.lastTimestamp) * Hundredths, MAX_FRAME_MS)
    ELSE FIRST_FRAME_MS

TickStepped(e, dt) ==
    CASE e.phase = "Decelerating" -> stepDeceleration(e, dt)
      [] e.phase = "Bouncing" -> stepBounce(e, dt)
      [] e.phase = "Snapping" -> stepSnap(e, dt)

\* (mutant of TickCommitted: onScrollEnd is invoked by every tick)
TickCommittedEndsEach(cbs, s) ==
    IF s.finished
    THEN Did([commitOffset(s.e) EXCEPT !.phase = "Idle", !.lastTimestamp = 0],
             FireIf(cbs, "onScroll") \o FireIf(cbs, "onScrollEnd"))
    ELSE Did(commitOffset(s.e),
             FireIf(cbs, "onScroll") \o FireIf(cbs, "onScrollEnd"))

TickCommitted(cbs, s) ==
    IF s.finished
    THEN Did([commitOffset(s.e) EXCEPT !.phase = "Idle", !.lastTimestamp = 0],
             FireIf(cbs, "onScroll") \o FireIf(cbs, "onScrollEnd"))
    ELSE Did(commitOffset(s.e), FireIf(cbs, "onScroll"))

tick(e, timestamp) ==
    IF ~needsTick(e) THEN Did(e, <<>>)
    ELSE TickCommitted(e.cbs,
                       TickStepped([e EXCEPT !.lastTimestamp = timestamp],
                                   FrameInterval(e, timestamp)))

\* The value passed for decelerationRate: a string or a number.
JsString(s) == [isString |-> TRUE, string |-> s, number |-> 0]

JsNumber(n) == [isString |-> FALSE, string |-> "", number |-> n]

\* __scrollSetConfig
ScrollSetConfig(e, key, value) ==
    CASE key = "horizontal" -> [e EXCEPT !.horizontal = value]
      [] key = "bounces" -> [e EXCEPT !.bounces = value]
      [] key = "scrollEnabled" -> [e EXCEPT !.scrollEnabled = value]
      [] key = "pagingEnabled" -> [e EXCEPT !.pagingEnabled = value]
      [] key = "snapToInterval" -> [e EXCEPT !.snapInterval = value]
      [] key = "decelerationRate" ->
             [e EXCEPT !.decelerationRate =
                 IF value.isString
                 THEN IF value.string = "fast" THEN DECELERATION_RATE_FAST
                      ELSE DECELERATION_RATE_NORMAL
                 ELSE value.number]
      [] OTHER -> e

\* __scrollSetCallbacks: a callback is set when a function is passed for it.
ScrollSetCallbacks(e, onScroll, onScrollEnd) ==
    [e EXCEPT !.cbs = @ \cup (IF onScroll THEN {"onScroll"} ELSE {})
                        \cup (IF onScrollEnd THEN {"onScrollEnd"} ELSE {})]

\* __scrollTouch
ScrollTouchPhase(e, touchPhase, x, y, ts, pid) ==
    CASE touchPhase = 0 -> onTouchBegan(e, pid, x, y, ts)
      [] touchPhase = 1 -> onTouchMoved(e, pid, x, y, ts)
      [] touchPhase = 2 -> onTouchEnded(e, pid)
      [] touchPhase = 3 -> onTouchCancelled(e, pid)
      [] OTHER -> Did(e, <<>>)

\* ---------------------------------------------------------- AnimationTicker
\* Values are integers in the unit of the property and times are in ms; the
\* progress t of a timing animation and the easing of it are in thousandths.
\* Only the timing driver is started here.
easeLinear(t) == t

easeInQuad(t) == (t * t) \div Thousandths

easeInOutCubic(t) ==
    IF 2 * t < Thousandths
    THEN (4 * t * t * t) \div (Thousandths * Thousandths)
    ELSE ((t - Thousandths) * (2 * t - 2 * Thousandths)
              * (2 * t - 2 * Thousandths)) \div (Thousandths * Thousandths)
         + Thousandths

easeInOut(t) == easeInOutCubic(t)

\* The EasingFn a name stands for, by the name of the function.
easingFromString(name) ==
    CASE name = "linear" -> "easeLinear"
      [] name = "easeIn" -> "easeInQuad"
      [] OTHER -> "easeInOut"

Eased(easing, t) ==
    CASE easing = "easeLinear" -> easeLinear(t)
      [] easing = "easeInQuad" -> easeInQuad(t)
      [] OTHER -> easeInOut(t)

\* struct Animation, as its member initialisers leave it.
AnimationNew ==
    [id |-> 0, node |-> NoNode, prop |-> "", driverType |-> "Timing",
     fromValue |-> 0, toValue |-> 0, currentValue |-> 0, startTime |-> 0,
     started |-> FALSE, finished |-> FALSE, duration |-> 300,
     easing |-> "easeInOut", onFinishCallback |-> FALSE]

tickTimingUnclamped(a, elapsed) ==
    IF a.duration <= 0
    THEN [a EXCEPT !.currentValue = a.toValue, !.finished = TRUE]
    ELSE [a EXCEPT !.currentValue =
             a.fromValue
               + ((a.toValue - a.fromValue)
                    * Eased(a.easing, (elapsed * Thousandths) \div a.duration))
                   \div Thousandths,
                   !.finished = elapsed >= a.duration]

tickTiming(a, elapsed) ==
    IF a.duration <= 0
    THEN [a EXCEPT !.currentValue = a.toValue, !.finished = TRUE]
    ELSE LET t == Min((elapsed * Thousandths) \div a.duration, Thousandths)
         IN  IF t >= Thousandths
             THEN [a EXCEPT !.currentValue = a.toValue, !.finished = TRUE]
             ELSE [a EXCEPT !.currentValue =
                      a.fromValue + ((a.toValue - a.fromValue)
                                         * Eased(a.easing, t)) \div Thousandths]

\* Animation::tick, up to the write to the node.
AnimationTick(a, timestamp) ==
    IF a.finished THEN a
    ELSE LET s == IF a.started THEN a
                  ELSE [a EXCEPT !.startTime = timestamp, !.started = TRUE]
         IN  tickTiming(s, timestamp - s.startTime)

applyValue(tr, a) ==
    IF a.node = NoNode THEN tr
    ELSE CASE a.prop = "scrollX" -> [tr EXCEPT ![a.node].scrollX = a.currentValue]
           [] a.prop = "scrollY" -> [tr EXCEPT ![a.node].scrollY = a.currentValue]
           [] OTHER -> tr

TickerNew == [nextId_ |-> 1, animations_ |-> EmptyMap]

start(tk, anim) ==
    [tk EXCEPT !.nextId_ = @ + 1,
               !.animations_ = MapPut(@, tk.nextId_, [anim EXCEPT !.id = tk.nextId_])]

\* (mutant of cancel: the animation is erased at once)
cancelErases(tk, id) ==
    [tk EXCEPT !.animations_ = MapErase(@, id)]

cancel(tk, id) ==
    IF id \in DOMAIN tk.animations_
    THEN [tk EXCEPT !.animations_[id].finished = TRUE]
    ELSE tk

hasActive(tk) == DOMAIN tk.animations_ # {}

\* try { callback } catch (...) {}: nothing the callback throws leaves the
\* block.  A call outside a try block lets it through to the caller.
Guarded(threw) == FALSE

Unguarded(threw) == threw

\* The state of a tickAll pass: the ticker, the tree, the ids found finished
\* (the local vector), the ids whose value was written to the node and the
\* ids whose completion callback was called, each in order.
Pass(tk, tr) ==
    [tk |-> tk, tree |-> tr, finished |-> <<>>, wrote |-> <<>>, fired |-> <<>>,
     escaped |-> FALSE]

\* tickAll, the first loop over animations_ in the order the map yields.
RECURSIVE TickEach(_, _, _, _)
TickEach(s, order, i, timestamp) ==
    IF i > Len(order) THEN s
    ELSE LET id == order[i]
             a == s.tk.animations_[id]
             b == AnimationTick(a, timestamp)
         IN  IF a.finished
             THEN TickEach([s EXCEPT !.finished = Append(@, id)], order, i + 1,
                           timestamp)
             ELSE TickEach([s EXCEPT !.tk.animations_[id] = b,
                                     !.tree = applyValue(@, b),
                                     !.wrote = Append(@, id),
                                     !.finished = IF b.finished THEN Append(@, id)
                                                  ELSE @],
                           order, i + 1, timestamp)

\* (mutant of FinishEach: the animation is erased only when it has no callback)
RECURSIVE FinishEachKeeps(_, _, _, _, _)
FinishEachKeeps(s, i, rt, react, threw) ==
    IF i > Len(s.finished) THEN s
    ELSE LET id == s.finished[i]
             called == s.tk.animations_[id].onFinishCallback /\ rt
             t == IF called
                  THEN [s EXCEPT !.tk = cancel(@, react), !.fired = Append(@, id)]
                  ELSE s
         IN  IF id \notin DOMAIN s.tk.animations_
             THEN FinishEachKeeps(s, i + 1, rt, react, threw)
             ELSE IF called /\ Guarded(threw) THEN [t EXCEPT !.escaped = TRUE]
             ELSE FinishEachKeeps(
                      [t EXCEPT !.tk.animations_ =
                          IF called THEN @ ELSE MapErase(@, id)],
                      i + 1, rt, react, threw)

\* tickAll, the second loop over the ids found finished.  The callback is
\* JavaScript: it may call __animateCancel(react) (react is no id when it
\* does not) and it may throw.
RECURSIVE FinishEach(_, _, _, _, _)
FinishEach(s, i, rt, react, threw) ==
    IF i > Len(s.finished) THEN s
    ELSE LET id == s.finished[i]
             called == s.tk.animations_[id].onFinishCallback /\ rt
             t == IF called
                  THEN [s EXCEPT !.tk = cancel(@, react), !.fired = Append(@, id)]
                  ELSE s
         IN  IF id \notin DOMAIN s.tk.animations_
             THEN FinishEach(s, i + 1, rt, react, threw)
             ELSE IF called /\ Guarded(threw) THEN [t EXCEPT !.escaped = TRUE]
             ELSE FinishEach([t EXCEPT !.tk.animations_ = MapErase(@, id)],
                             i + 1, rt, react, threw)

tickAll(tk, tr, timestamp, rt, order, react, threw) ==
    FinishEach(TickEach(Pass(tk, tr), order, 1, timestamp), 1, rt, react, threw)

\* __animateNode(nodeId, prop, "timing", config), config holding toValue,
\* duration, easing and, when hasOnFinish, onFinish: the ticker and the id
\* returned.
AnimateNode(tk, tr, nodeId, prop, toValue, duration, easing, hasOnFinish) ==
    IF nodeId \notin DOMAIN tr THEN [tk |-> tk, id |-> -1]
    ELSE LET from == CASE prop = "scrollX" -> tr[nodeId].scrollX
                       [] prop = "scrollY" -> tr[nodeId].scrollY
                       [] OTHER -> 0
         IN  [tk |-> start(tk, [AnimationNew EXCEPT
                                   !.node = nodeId, !.prop = prop,
                                   !.fromValue = from, !.currentValue = from,
                                   !.toValue = toValue, !.duration = duration,
                                   !.easing = easingFromString(easing),
                                   !.onFinishCallback = hasOnFinish]),
              id |-> tk.nextId_]

\* ------------------------------------------------------ ScrollEngineManager
\* An entry of engines_ is the engine's id, the id of the node it points to
\* and the engine; the node record inside the engine is the node pointed to,
\* so engines that point to one node hold one record (Stored keeps it so).
ManagerNew == [nextId_ |-> 1, engines_ |-> EmptyMap]

NoEngine == 0

\* The node nodeId as the engines that point to it have left it.
NodeAt(m, nodeId) ==
    IF \E id \in DOMAIN m.engines_ : m.engines_[id].node = nodeId
    THEN m.engines_[CHOOSE id \in DOMAIN m.engines_ :
                        m.engines_[id].node = nodeId].e.node
    ELSE ScrollNodeNew

create(m, nodeId) ==
    [m EXCEPT !.nextId_ = @ + 1,
              !.engines_ =
                  MapPut(@, m.nextId_,
                         [id |-> m.nextId_, node |-> nodeId,
                          e |-> [ScrollEngineNew EXCEPT
                                    !.node = NodeAt(m, nodeId),
                                    !.horizontal = NodeAt(m, nodeId).horizontal,
                                    !.scrollEnabled =
                                        NodeAt(m, nodeId).scrollEnabled]])]

get(m, id) == IF id \in DOMAIN m.engines_ THEN id ELSE NoEngine

remove(m, id) == [m EXCEPT !.engines_ = MapErase(@, id)]

\* The engine id after a handler left it as e: what it wrote to its node is
\* seen by every engine that points to that node.
Stored(m, id, e) ==
    [m EXCEPT !.engines_ =
        [j \in DOMAIN @ |->
            IF j = id THEN [@[j] EXCEPT !.e = e]
            ELSE IF @[j].node = @[id].node THEN [@[j] EXCEPT !.e.node = e.node]
            ELSE @[j]]]

\* What a handler leaves when a callback may throw: escaped says that an
\* exception left the handler, which then stopped where it was thrown.
Thrown(e, f, escaped) == [e |-> e, fired |-> f, escaped |-> escaped]

\* ScrollEngine::tick from commitOffset on, the callbacks in throws
\* throwing: onScrollCallback and onScrollEndCallback are called outside
\* any try block.
TickCommittedOr(cbs, s, throws) ==
    IF Unguarded("onScroll" \in cbs \cap throws)
    THEN Thrown(commitOffset(s.e), <<"onScroll">>, TRUE)
    ELSE IF ~s.finished
    THEN Thrown(commitOffset(s.e), FireIf(cbs, "onScroll"), FALSE)
    ELSE Thrown([commitOffset(s.e) EXCEPT !.phase = "Idle", !.lastTimestamp = 0],
                FireIf(cbs, "onScroll") \o FireIf(cbs, "onScrollEnd"),
                Unguarded("onScrollEnd" \in cbs \cap throws))

TickOr(e, timestamp, throws) ==
    IF ~needsTick(e) THEN Thrown(e, <<>>, FALSE)
    ELSE TickCommittedOr(e.cbs,
                         TickStepped([e EXCEPT !.lastTimestamp = timestamp],
                                     FrameInterval(e, timestamp)),
                         throws)

\* The state of ScrollEngineManager::tickAll: the manager, the ids of the
\* engines ticked, the callbacks called, and whether an exception left it.
Round0(m) == [m |-> m, ticked |-> <<>>, fired |-> <<>>, escaped |-> FALSE]

RECURSIVE ManagerTickEach(_, _, _, _, _)
ManagerTickEach(s, order, i, timestamp, throws) ==
    IF i > Len(order) \/ s.escaped THEN s
    ELSE LET id == order[i]
             r == TickOr(s.m.engines_[id].e, timestamp, throws)
         IN  IF ~needsTick(s.m.engines_[id].e)
             THEN ManagerTickEach(s, order, i + 1, timestamp, throws)
             ELSE ManagerTickEach([s EXCEPT !.m = Stored(@, id, r.e),
                                            !.ticked = Append(@, id),
                                            !.fired = @ \o r.fired,
                                            !.escaped = r.escaped],
                                  order, i + 1, timestamp, throws)

ManagerTickAll(m, timestamp, order, throws) ==
    ManagerTickEach(Round0(m), order, 1, timestamp, throws)

\* __scrollCreate(nodeId): the manager and the value returned (0: undefined).
ScrollCreate(m, nodes, nodeId) ==
    IF nodeId \notin nodes THEN [m |-> m, id |-> NoEngine]
    ELSE [m |-> create(m, nodeId), id |-> m.nextId_]

\* __scrollTo(engineId, x, y, animated)
ScrollTo(m, engineId, x, y, animated) ==
    IF get(m, engineId) = NoEngine THEN m
    ELSE Stored(m, engineId, scrollTo(m.engines_[engineId].e, x, y, animated).e)

\* __scrollSetCallbacks(engineId, onScroll, onScrollEnd)
ScrollSetCallbacksOf(m, engineId, onScroll, onScrollEnd) ==
    IF get(m, engineId) = NoEngine THEN m
    ELSE Stored(m, engineId,
                ScrollSetCallbacks(m.engines_[engineId].e, onScroll, onScrollEnd))

\* ------------------------------------------------------------ ZilolRuntime
\* The statics of the runtime that onVsync reads, and as history the steps
\* the last onVsync took in order, what its render step drew, and how many
\* calls the application has made so far.
\* A timer is its id, when it fires and what its JavaScript callback does;
\* a microtask is what it does.
RuntimeNew ==
    [sNextTimerId |-> 1, sTimers |-> <<>>, sMicrotasks |-> <<>>,
     steps |-> <<>>, drawn |-> <<>>, calls |-> 0]

setTimeout(f, body, delayMs, nowMs) ==
    [f EXCEPT !.sNextTimerId = @ + 1,
              !.sTimers = Append(@, [id |-> f.sNextTimerId, callback |-> body,
                                     fireTimeMs |-> nowMs + delayMs,
                                     intervalMs |-> 0, cancelled |-> FALSE])]

queueMicrotask(f, task) == [f EXCEPT !.sMicrotasks = Append(@, task)]

\* What the frame works on: the manager, the ticker and the tree.
World(m, tk, tr) == [m |-> m, tk |-> tk, tree |-> tr]

\* A JavaScript task of the application: it starts a timing animation of
\* node 2 or scrolls engine 1.
RunTask(w, body) ==
    CASE body = "animate" ->
             [w EXCEPT !.tk = AnimateNode(w.tk, w.tree, 2, "scrollY", AnimTarget,
                                          0, "linear", FALSE).tk]
      [] body = "scrollTo" -> [w EXCEPT !.m = ScrollTo(w.m, 1, 0, NearTarget, TRUE)]
      [] OTHER -> w

RECURSIVE RunTasks(_, _, _)
RunTasks(w, bodies, i) ==
    IF i > Len(bodies) THEN w ELSE RunTasks(RunTask(w, bodies[i]), bodies, i + 1)

ReadyTimers(f, nowMs) ==
    SelectSeq(f.sTimers, LAMBDA t : ~t.cancelled /\ t.fireTimeMs <= nowMs)

RemainingTimers(f, nowMs) ==
    SelectSeq(f.sTimers, LAMBDA t : ~t.cancelled /\ t.fireTimeMs > nowMs)

Bodies(timers) == [i \in 1..Len(timers) |-> timers[i].callback]

\* The state of an onVsync: the world, the runtime and whether an exception
\* left onVsync.
Frame(w, f) == [w |-> w, f |-> f, escaped |-> FALSE]

Step(s, name) == [s EXCEPT !.f.steps = Append(@, name)]

DrainTimers(s, nowMs) ==
    Step([s EXCEPT !.w = RunTasks(@, Bodies(ReadyTimers(s.f, nowMs)), 1),
                   !.f.sTimers = RemainingTimers(s.f, nowMs)],
         "timers")

DrainMicrotasks(s) ==
    Step([s EXCEPT !.w = RunTasks(@, s.f.sMicrotasks, 1), !.f.sMicrotasks = <<>>],
         "microtasks")

ScrollTicked(s, timestampMs, order, throws) ==
    LET r == ManagerTickAll(s.w.m, timestampMs, order, throws)
    IN  Step([s EXCEPT !.w.m = r.m, !.escaped = r.escaped], "scrollTick")

\* The map yields the animations that are active in the order of rank.
AnimationTicked(s, timestampMs, rank, threw) ==
    IF s.escaped \/ ~hasActive(s.w.tk) THEN s
    ELSE LET order == SelectSeq(rank, LAMBDA i : i \in DOMAIN s.w.tk.animations_)
             r == tickAll(s.w.tk, s.w.tree, timestampMs, TRUE, order, 0, threw)
         IN  Step([s EXCEPT !.w.tk = r.tk, !.w.tree = r.tree], "animationTick")

\* The render step draws the tree and the scroll nodes as they are then.
Rendered(s) ==
    IF s.escaped THEN s
    ELSE Step([s EXCEPT !.f.drawn = <<s.w>>], "render")

\* (mutant of onVsync: the tree is rendered before the animations are ticked)
onVsyncRendersEarly(w, f, timestampMs, nowMs, ready, orderE, orderA, throws, threw) ==
    LET drained == DrainMicrotasks(DrainTimers(
                       Frame(w, [f EXCEPT !.steps = <<>>, !.drawn = <<>>]), nowMs))
    IN  IF ~ready THEN drained
        ELSE AnimationTicked(
                 Rendered(ScrollTicked(drained, timestampMs, orderE, throws)),
                 timestampMs, orderA, threw)

\* onVsync(timestampMs), the steady clock reading nowMs; ready: the renderer
\* is ready and beginFrame succeeded.
onVsync(w, f, timestampMs, nowMs, ready, orderE, orderA, throws, threw) ==
    LET drained == DrainMicrotasks(DrainTimers(
                       Frame(w, [f EXCEPT !.steps = <<>>, !.drawn = <<>>]), nowMs))
    IN  IF ~ready THEN drained
        ELSE Rendered(AnimationTicked(
                          ScrollTicked(drained, timestampMs, orderE, throws),
                          timestampMs, orderA, threw))

\* ------------------------------------------------- the platform's pointers
\* A pointer goes down (began), moves while down, and goes up (ended or
\* cancelled); the set of pointers that are down follows the phase.
PhaseOk(phase, p) == IF phase = 0 THEN p \notin down ELSE p \in down

DownAfter(phase, p) ==
    CASE phase = 0 -> down \cup {p}
      [] phase = 1 -> down
      [] OTHER -> down \ {p}

Op(name, phase, p, x, y) ==
    [op |-> name, phase |-> phase, pointerId |-> p, x |-> x, y |-> y]

\* No touch has been delivered yet: the object is still being configured.
Configuring == lastOp.op \in {"init", "setCallback", "setConfig"}

\* History of callback invocations: reset by a began, then counted.
NoCount == [onStart |-> 0, onEnd |-> 0]

Occurrences(f, name) == Cardinality({i \in 1..Len(f) : f[i] = name})

CountAfter(phase, f) ==
    LET base == IF phase = 0 THEN NoCount ELSE count
    IN  [onStart |-> base.onStart + Occurrences(f, "onStart"),
         onEnd   |-> base.onEnd + Occurrences(f, "onEnd")]

\* The steady clock advances between events.
AdvanceClock ==
    /\ now + ClockStep <= MaxClockSteps * ClockStep
    /\ now' = now + ClockStep
    /\ UNCHANGED <<ticker, mgr, frame, eng, down, pan, tap, pinch, tree, disp, obs, lastOp, pre, fired, trail,
                   count>>

NoObs == [streak |-> 0, lastQualMs |-> 0, pointerId |-> 0, live |-> FALSE,
          startMs |-> 0, startX |-> 0, startY |-> 0, verdict |-> "other",
          quiet |-> FALSE]

\* ------------------------------------------------------------------- Init
\* Every object as its constructor leaves it; no pointer is down.
Init ==
    /\ now = 0
    /\ down = {}
    /\ pan = PanNew
    /\ tap = TapNew
    /\ pinch = PinchNew
    /\ tree = TreeNew
    /\ disp = DispatcherNew
    /\ eng = ScrollEngineNew
    /\ mgr = ManagerNew
    /\ ticker = TickerNew
    /\ frame = RuntimeNew
    /\ obs = NoObs
    /\ lastOp = Op("init", 0, 0, 0, 0)
    /\ pre = PanNew
    /\ fired = <<>>
    /\ trail = <<>>
    /\ count = NoCount

\* The tap sequence read off the platform's events alone (spec 4.4, Tap):
\* the tap in progress is the touch of the pointer that went down last; it
\* qualifies when it is released within maxDurationMs without having moved
\* farther than maxDistance; a qualifying release extends the streak, which a
\* began later than maxDelayMs after the previous qualifying release, a touch
\* that failed or a cancelled event starts over; the streak ends at required.
\* verdict names what the last event was for the sequence.
ObsAfter(o, phase, p, x, y, t, r) ==
    LET mine == o.live /\ o.pointerId = p
        dx == x - o.startX
        dy == y - o.startY
    IN  CASE phase = 0 ->
               LET late == o.streak > 0 /\ t - o.lastQualMs > r.maxDelayMs
               IN  [o EXCEPT !.pointerId = p, !.live = TRUE, !.startMs = t,
                             !.startX = x, !.startY = y,
                             !.streak = IF late THEN 0 ELSE @,
                             !.verdict = IF late THEN "restart" ELSE "down"]
          [] phase = 1 /\ mine /\ dx * dx + dy * dy > r.maxDistance * r.maxDistance ->
               [o EXCEPT !.live = FALSE, !.streak = 0, !.verdict = "movedTooFar"]
          [] phase = 2 /\ mine /\ t - o.startMs > r.maxDurationMs ->
               [o EXCEPT !.live = FALSE, !.streak = 0, !.verdict = "heldTooLong"]
          [] phase = 2 /\ mine ->
               [o EXCEPT !.live = FALSE, !.lastQualMs = t,
                         !.streak = IF @ + 1 = r.requiredTaps THEN 0 ELSE @ + 1,
                         !.verdict = IF o.streak + 1 = r.requiredTaps
                                     THEN "lastTap" ELSE "tap"]
          [] phase = 2 ->
               [o EXCEPT !.verdict = IF o.pointerId = p THEN "afterFailure"
                                                        ELSE "other"]
          [] phase = 3 ->
               [o EXCEPT !.live = FALSE, !.streak = 0, !.verdict = "cancelled"]
          [] OTHER -> [o EXCEPT !.verdict = "other"]

\* ----------------------------------------------------- Pan: specification
PanTouch ==
    \E phase \in 0..3, p \in Pointers, pt \in PanPoints :
        /\ PhaseOk(phase, p)
        /\ LET res == PanOnTouchEvent(pan, phase, pt[1], pt[2], p)
           IN  /\ pan' = res.rec
               /\ fired' = res.fired
               /\ trail' = res.trail
               /\ count' = CountAfter(phase, res.fired)
        /\ down' = DownAfter(phase, p)
        /\ pre' = pan
        /\ lastOp' = Op("touch", phase, p, pt[1], pt[2])
        /\ UNCHANGED <<ticker, mgr, frame, eng, now, tap, pinch, tree, disp, obs>>

\* TouchDispatcher::setGestureCallback on the pan recognizer, called while
\* the recognizer is being configured.
PanSetCallback ==
    \E ev \in GestureCallbackNames :
        /\ Configuring
        /\ pan' = [pan EXCEPT !.cbs = @ \cup {ev}]
        /\ pre' = pan
        /\ lastOp' = Op("setCallback", 0, 0, 0, 0)
        /\ fired' = <<>>
        /\ trail' = <<>>
        /\ UNCHANGED <<ticker, mgr, frame, eng, now, down, tap, pinch, tree, disp, obs, count>>

\* TouchDispatcher::setGestureConfig(gid, "activationThreshold", value),
\* called while the recognizer is being configured.
PanSetConfig ==
    \E value \in PanThresholds :
        /\ Configuring
        /\ pan' = [pan EXCEPT !.activationThreshold = value]
        /\ pre' = pan
        /\ lastOp' = Op("setConfig", 0, 0, 0, 0)
        /\ fired' = <<>>
        /\ trail' = <<>>
        /\ UNCHANGED <<ticker, mgr, frame, eng, now, down, tap, pinch, tree, disp, obs, count>>

PanNext == PanTouch \/ PanSetCallback \/ PanSetConfig

SpecPan == Init /\ [][PanNext]_vars

\* The last call was a touch event of the given phases, and its pointer was
\* the one the recognizer was tracking (touch_.active with that pointer id).
PanEventOf(phases) == lastOp.op = "touch" /\ lastOp.phase \in phases

PanTracked == pre.touch.active /\ pre.touch.pointerId = lastOp.pointerId

PanDist2 == (lastOp.x - pre.touch.startX) * (lastOp.x - pre.touch.startX)
          + (lastOp.y - pre.touch.startY) * (lastOp.y - pre.touch.startY)

PanT2 == pre.activationThreshold * pre.activationThreshold

\* C3: after began, a moved event of the tracked pointer closer than T to the
\* start leaves the recognizer Possible and fires nothing; the first one at
\* distance >= T fires onStart only, passing through Began into Changed; every
\* later moved event of the tracked pointer fires onUpdate once and nothing
\* else; onStart is fired at most once per began.
C3_PanActivation ==
    /\ pan.touch.active => pan.state \in {"Possible", "Changed"}
    /\ count.onStart <= 1
    /\ (PanEventOf({1}) /\ PanTracked) =>
          /\ (pre.state = "Possible" /\ PanDist2 < PanT2) =>
                (pan.state = "Possible" /\ fired = <<>> /\ trail = <<>>)
          /\ (pre.state = "Possible" /\ PanDist2 >= PanT2) =>
                /\ fired = FireIf(pre.cbs, "onStart")
                /\ trail = <<"Began", "Changed">>
                /\ pan.state = "Changed"
          /\ pre.state = "Changed" =>
                (fired = FireIf(pre.cbs, "onUpdate") /\ pan.state = "Changed")

\* C3 witness: a moved event at exactly the threshold distance activated the
\* pan and fired onStart.
C3_Witness ==
    /\ PanEventOf({1}) /\ PanTracked
    /\ pre.state = "Possible" /\ PanDist2 = PanT2
    /\ fired = <<"onStart">> /\ pan.state = "Changed" /\ count.onStart = 1

\* C4: in Changed, ended / cancelled of the tracked pointer fires onEnd once,
\* leaves Ended / Cancelled and clears the active flag; a moved, ended or
\* cancelled event of any other pointer changes nothing and fires nothing.
C4_PanRelease ==
    /\ (PanEventOf({2, 3}) /\ PanTracked /\ pre.state = "Changed") =>
          /\ fired = FireIf(pre.cbs, "onEnd")
          /\ pan.state = (IF lastOp.phase = 2 THEN "Ended" ELSE "Cancelled")
          /\ ~pan.touch.active
    /\ (PanEventOf({1, 2, 3}) /\ pre.touch.pointerId # lastOp.pointerId) =>
          (pan = pre /\ fired = <<>>)

\* C4 witness: the tracked pointer was cancelled during a pan, after an event
\* of the other pointer had been ignored.
C4_Witness ==
    /\ PanEventOf({3}) /\ PanTracked /\ pre.state = "Changed"
    /\ fired = <<"onEnd">> /\ pan.state = "Cancelled" /\ ~pan.touch.active
    /\ down # {}

\* ----------------------------------------------------- Tap: specification
TapTouch ==
    \E phase \in 0..3, p \in Pointers, pt \in TapPoints :
        /\ PhaseOk(phase, p)
        /\ LET res == TapOnTouchEvent(tap, phase, pt[1], pt[2], p, now)
           IN  /\ tap' = res.rec
               /\ fired' = res.fired
               /\ trail' = res.trail
        /\ obs' = ObsAfter(obs, phase, p, pt[1], pt[2], now, tap)
        /\ down' = DownAfter(phase, p)
        /\ lastOp' = Op("touch", phase, p, 0, 0)
        /\ pre' = tap
        /\ UNCHANGED <<ticker, mgr, frame, eng, now, pan, pinch, tree, disp, count>>

\* TouchDispatcher::setGestureCallback(gid, "onEnd", cb) on the tap
\* recognizer, called while the recognizer is being configured.
TapSetCallback ==
    /\ Configuring
    /\ tap' = [tap EXCEPT !.cbs = @ \cup {"onEnd"}]
    /\ lastOp' = Op("setCallback", 0, 0, 0, 0)
    /\ fired' = <<>>
    /\ trail' = <<>>
    /\ UNCHANGED <<ticker, mgr, frame, eng, now, down, pan, pinch, tree, disp, obs, pre, count>>

\* TouchDispatcher::setGestureConfig(gid, "numberOfTaps", n), called while
\* the recognizer is being configured.
TapSetConfig ==
    /\ Configuring
    /\ \E n \in 1..MaxRequiredTaps : tap' = [tap EXCEPT !.requiredTaps = n]
    /\ lastOp' = Op("setConfig", 0, 0, 0, 0)
    /\ fired' = <<>>
    /\ trail' = <<>>
    /\ UNCHANGED <<ticker, mgr, frame, eng, now, down, pan, pinch, tree, disp, obs, pre, count>>

TapNext == TapTouch \/ TapSetCallback \/ TapSetConfig \/ AdvanceClock

SpecTap == Init /\ [][TapNext]_vars

\* --------------------------------------------------- Pinch: specification
\* Both slots hold an active touch: the recognizer tracks two pointers.
PinchTracksTwo(r) == r.touch1.active /\ r.touch2.active /\ r.numActive = 2

PinchTracks(r, p) ==
    \/ r.touch1.active /\ r.touch1.pointerId = p
    \/ r.touch2.active /\ r.touch2.pointerId = p

\* The event is the release of a tracked pointer during a pinch of two
\* tracked pointers.
PinchEnds(phase, p) ==
    /\ phase \in {2, 3}
    /\ pinch.state = "Changed" /\ PinchTracksTwo(pinch) /\ PinchTracks(pinch, p)

\* History for "after the pinch ended, until a new second pointer goes
\* down": set by an event that ends a pinch, cleared by a began that leaves
\* two pointers down.
QuietAfter(phase, p) ==
    IF PinchEnds(phase, p) THEN TRUE
    ELSE IF phase = 0 /\ Cardinality(down \cup {p}) >= 2 THEN FALSE
    ELSE obs.quiet

PinchTouch ==
    \E phase \in 0..3, p \in Pointers, pt \in PinchPoints :
        /\ PhaseOk(phase, p)
        /\ LET res == PinchOnTouchEvent(pinch, phase, pt[1], pt[2], p)
           IN  /\ pinch' = res.rec
               /\ fired' = res.fired
               /\ trail' = res.trail
        /\ obs' = [obs EXCEPT !.quiet = QuietAfter(phase, p),
                              !.verdict = IF PinchEnds(phase, p)
                                          THEN "pinchEnd" ELSE "other"]
        /\ down' = DownAfter(phase, p)
        /\ lastOp' = Op("touch", phase, p, 0, 0)
        /\ UNCHANGED <<ticker, mgr, frame, eng, now, pan, tap, tree, disp, pre, count>>

\* TouchDispatcher::setGestureCallback on the pinch recognizer, called while
\* the recognizer is being configured.
PinchSetCallback ==
    \E ev \in GestureCallbackNames :
        /\ Configuring
        /\ pinch' = [pinch EXCEPT !.cbs = @ \cup {ev}]
        /\ lastOp' = Op("setCallback", 0, 0, 0, 0)
        /\ fired' = <<>>
        /\ trail' = <<>>
        /\ UNCHANGED <<ticker, mgr, frame, eng, now, down, pan, tap, tree, disp, obs, pre, count>>

PinchNext == PinchTouch \/ PinchSetCallback

SpecPinch == Init /\ [][PinchNext]_vars

Fired(name) == Occurrences(fired, name) > 0

\* C7: the pinch fires no onStart and no onUpdate while fewer than two
\* pointers are down; the began that makes two pointers down fires onStart
\* once, records an initial distance of at least 1 and passes through Began
\* into Changed; in Changed with two pointers down every moved event fires
\* one onUpdate.
C7_PinchNeedsTwoPointers ==
    /\ (lastOp.op = "touch" /\ (Fired("onStart") \/ Fired("onUpdate"))) =>
          Cardinality(down) >= 2
    /\ (lastOp.op = "touch" /\ lastOp.phase = 0 /\ Cardinality(down) = 2) =>
          /\ fired = FireIf(pinch.cbs, "onStart")
          /\ trail = <<"Began", "Changed">>
          /\ pinch.state = "Changed" /\ pinch.initialDist >= 1
    /\ (lastOp.op = "touch" /\ lastOp.phase = 1 /\ pinch.state = "Changed"
                            /\ Cardinality(down) >= 2) =>
          fired = FireIf(pinch.cbs, "onUpdate")

\* C8: in Changed with two tracked pointers, ended or cancelled of either
\* tracked pointer fires onEnd once, leaves Ended and one tracked pointer;
\* from then until a began leaves two pointers down no event fires onUpdate.
C8_PinchEnd ==
    /\ obs.verdict = "pinchEnd" =>
          /\ fired = FireIf(pinch.cbs, "onEnd") /\ trail = <<"Ended">>
          /\ pinch.state = "Ended" /\ pinch.numActive = 1
    /\ obs.quiet => (~Fired("onUpdate") /\ pinch.state # "Changed")

\* C8 witness: after the pinch ended the remaining pointer moves and no
\* onUpdate is fired although the callback is set.
C8_Witness ==
    /\ obs.quiet /\ lastOp.op = "touch" /\ lastOp.phase = 1
    /\ pinch.cbs = GestureCallbackNames /\ fired = <<>>
    /\ pinch.state = "Ended" /\ pinch.numActive = 1 /\ Cardinality(down) = 1

\* C5: with requiredTaps = N >= 1, the tap counter is the length of the
\* current streak of consecutive qualifying taps; onEnd is fired by the N-th
\* qualifying release of a streak and by no other event, once, and leaves the
\* counter at 0; a began later than maxDelayMs after the previous qualifying
\* release starts the streak over, so the tap it begins counts as 1.
C5_TapSequence ==
    tap.requiredTaps >= 1 =>
        /\ tap.tapCount = obs.streak
        /\ lastOp.op = "touch" =>
              fired = (IF obs.verdict = "lastTap"
                       THEN FireIf(tap.cbs, "onEnd") ELSE <<>>)
        /\ obs.verdict \in {"lastTap", "restart"} => tap.tapCount = 0
        /\ obs.verdict = "tap" => tap.tapCount \in 1..(tap.requiredTaps - 1)

\* C5 witness: the second tap of a double tap, begun 300 ms after the first
\* was released, fired onEnd.
C5_Witness ==
    /\ tap.requiredTaps = 2 /\ obs.verdict = "lastTap"
    /\ fired = <<"onEnd">> /\ tap.tapCount = 0 /\ tap.state = "Ended"
    /\ tap.touch.startTimeMs - 2 * ClockStep >= 0
    /\ now = tap.lastTapTimeMs /\ now = 2 * ClockStep

\* C6: a moved event of the tracked pointer farther than maxDistance from the
\* start fails the recognizer at once and zeroes the counter, and the release
\* of that touch then fires and counts nothing; a release after more than
\* maxDurationMs fails the recognizer, fires nothing and leaves the counter
\* at 0 instead of incrementing it.
C6_TapFailure ==
    /\ obs.verdict = "movedTooFar" =>
          /\ tap.state = "Failed" /\ trail = <<"Failed">>
          /\ tap.tapCount = 0 /\ ~tap.touch.active /\ fired = <<>>
    /\ obs.verdict = "afterFailure" =>
          (tap.tapCount = 0 /\ fired = <<>> /\ trail = <<>>)
    /\ obs.verdict = "heldTooLong" =>
          (tap.state = "Failed" /\ tap.tapCount = 0 /\ fired = <<>>)

\* C6 witness: the touch that failed by moving 16 away is released.
C6_Witness ==
    /\ obs.verdict = "afterFailure" /\ tap.state = "Failed"
    /\ "onEnd" \in tap.cbs /\ lastOp.phase = 2

\* C35: with requiredTaps = N set before the first touch, the tap counter is
\* within 0..N-1 after every touch event, and an event that fires onEnd is
\* the ended event of the tracked pointer, finds the counter at N-1 and
\* leaves it at 0.
C35_TapCountBelowRequired ==
    lastOp.op = "touch" =>
        /\ tap.requiredTaps = pre.requiredTaps
        /\ tap.tapCount >= 0 /\ tap.tapCount < tap.requiredTaps
        /\ Fired("onEnd") =>
              /\ lastOp.phase = 2
              /\ pre.touch.active /\ pre.touch.pointerId = lastOp.pointerId
              /\ pre.tapCount + 1 = tap.requiredTaps
              /\ tap.tapCount = 0

\* C35 witness: the second tap of a double tap, released while another
\* pointer is down, fires onEnd from a counter of 1.
C35_Witness ==
    /\ lastOp.op = "touch" /\ lastOp.phase = 2
    /\ tap.requiredTaps = 2 /\ pre.tapCount = 1 /\ tap.tapCount = 0
    /\ fired = <<"onEnd">>
    /\ down # {}

\* ------------------------------------------------------ dispatcher specs
Configured(name) == lastOp' = Op(name, 0, 0, 0, 0)

\* The gesture ids of the recognizers attached to a node.
AttachedTo(d, nodeId) ==
    {gid \in DOMAIN d.recognizers : d.recognizers[gid].nodeId = nodeId}

\* The node whose recognizers an event of pointer p is owed, read off the
\* events: the node hit at p's began when it had recognizers, until p's
\* ended or cancelled.
NoCapture == [p \in Pointers |-> NoNode]

CaptureObs(o, phase, p, x, y) ==
    LET hit == HitTest(tree, disp, x, y)
        cap == IF "captured" \in DOMAIN o THEN o.captured ELSE NoCapture
        owed == IF phase = 0
                THEN IF hit # NoNode /\ AttachedTo(disp, hit) # {}
                     THEN hit ELSE NoNode
                ELSE cap[p]
    IN  [captured |-> [cap EXCEPT ![p] = IF phase \in {2, 3} THEN NoNode
                                         ELSE owed],
         owed |-> owed]

\* The press of pointer p as the events define it: it starts at a began
\* that hits a node, and is over after a moved farther than 10 units from
\* where it started, an ended or a cancelled.  was is the press before the
\* event, with whether the event is farther than that from its start; still
\* says that every event of the press was at the position of its began.
NoPress == [p \in Pointers |-> [live |-> FALSE, nodeId |-> NoNode, x |-> 0,
                                y |-> 0, still |-> FALSE]]

PressObs(o, phase, p, x, y) ==
    LET press == IF "press" \in DOMAIN o THEN o.press ELSE NoPress
        hit == HitTest(tree, disp, x, y)
        far == (x - press[p].x) * (x - press[p].x)
                   + (y - press[p].y) * (y - press[p].y) > 10 * 10
        still == press[p].still /\ x = press[p].x /\ y = press[p].y
    IN  [press |-> [press EXCEPT ![p] =
                       IF phase = 0
                       THEN IF hit = NoNode THEN NoPress[p]
                            ELSE [live |-> TRUE, nodeId |-> hit, x |-> x, y |-> y,
                                  still |-> TRUE]
                       ELSE IF phase = 1
                       THEN IF far THEN [@ EXCEPT !.live = FALSE, !.still = FALSE]
                            ELSE [@ EXCEPT !.still = still]
                       ELSE NoPress[p]],
         was |-> [live |-> press[p].live, nodeId |-> press[p].nodeId,
                  far |-> far, still |-> still,
                  inside |-> /\ press[p].nodeId # NoNode
                             /\ InBounds(tree[press[p].nodeId], x, y)]]

\* The press callbacks as they were invoked: pending[p] says that the last
\* of onPressIn and onPressOut invoked by an event of pointer p was
\* onPressIn; was is pending[p] before the event.
NoPending == [p \in Pointers |-> FALSE]

PendingObs(o, p, f) ==
    LET pending == IF "pending" \in DOMAIN o THEN o.pending ELSE NoPending
        last == SelectSeq(f, LAMBDA name : name \in {"onPressIn", "onPressOut"})
    IN  [pending |-> [pending EXCEPT ![p] =
                         IF last = <<>> THEN @
                         ELSE last[Len(last)] = "onPressIn"],
         was |-> pending[p]]

\* The press the dispatcher tracks for pointer p, NoNode when it tracks none.
NoActiveTouch == [nodeId |-> NoNode, startX |-> 0, startY |-> 0,
                  startTimeMs |-> 0]

TrackedPress(d, p) ==
    IF p \in DOMAIN d.activeTouches THEN d.activeTouches[p] ELSE NoActiveTouch

\* dispatchTouch with a position from points.  A began comes for a pointer
\* that is not down; the other phases come for a pointer that is down or,
\* when stray events are let in, for any pointer.
DispTouch(points, stray) ==
    \E phase \in 0..3, pt \in points, p \in Pointers :
        /\ PhaseOk(phase, p) \/ (stray /\ phase # 0)
        /\ \E res \in {DispatchTouch(tree, disp, phase, pt[1], pt[2], p, now)},
              o \in {CaptureObs(obs, phase, p, pt[1], pt[2])},
              q \in {PressObs(obs, phase, p, pt[1], pt[2])} :
               /\ disp' = res.d
               /\ fired' = res.fired
               /\ obs' = [captured |-> o.captured, owed |-> o.owed,
                          delivered |-> res.delivered,
                          elsewhere |-> HitTest(tree, disp, pt[1], pt[2]) # o.owed,
                          inside |-> LET n == TrackedPress(disp, p).nodeId
                                     IN  /\ n # NoNode
                                         /\ InBounds(tree[n], pt[1], pt[2]),
                          heldMs |-> now - TrackedPress(disp, p).startTimeMs,
                          press |-> q.press, was |-> q.was,
                          pending |-> PendingObs(obs, p, res.fired).pending,
                          wasPending |-> PendingObs(obs, p, res.fired).was]
        /\ down' = DownAfter(phase, p)
        /\ pre' = TrackedPress(disp, p)
        /\ lastOp' = Op("touch", phase, p, 0, 0)
        /\ trail' = <<>>
        /\ UNCHANGED <<ticker, mgr, frame, eng, now, pan, tap, pinch, tree, count>>

CaptureTouch == DispTouch(CapturePoints, TRUE)

PressTouch == DispTouch(PressPoints, FALSE)

DispAttachGesture ==
    \E nodeId \in AttachNodes, type \in AttachTypes :
        /\ Configuring
        /\ disp.nextGestureId <= MaxGestures
        /\ disp' = AttachGesture(disp, nodeId, type).d
        /\ Configured("setConfig")
        /\ fired' = <<>> /\ trail' = <<>>
        /\ UNCHANGED <<ticker, mgr, frame, eng, now, down, pan, tap, pinch, tree, obs, pre, count>>

CaptureNext == CaptureTouch \/ DispAttachGesture

SpecCapture == Init /\ [][CaptureNext]_vars

\* The setCallback calls an entry table stands for, at least.
Registrations(d) ==
    Cardinality({<<k, e>> \in (DOMAIN d.callbacks) \X (PressCallbackNames \cup {""}) :
                    IF d.callbacks[k] = {} THEN e = "" ELSE e \in d.callbacks[k]})

DispSetCallback ==
    \E nodeId \in PressNodes, event \in PressCallbackNames :
        /\ Configuring
        /\ Registrations(disp) < MaxCallbacks
        /\ disp' = SetCallback(disp, nodeId, event)
        /\ disp' # disp
        /\ Configured("setCallback")
        /\ fired' = <<>> /\ trail' = <<>>
        /\ UNCHANGED <<ticker, mgr, frame, eng, now, down, pan, tap, pinch, tree, obs, pre, count>>

\* ScrollEngine::commitOffset writes the engine's offset to its node.
CommitScroll ==
    \E v \in ScrollOffsets :
        /\ Configuring
        /\ tree[2].scrollY # v
        /\ tree' = [tree EXCEPT ![2].scrollY = v]
        /\ Configured("setConfig")
        /\ fired' = <<>> /\ trail' = <<>>
        /\ UNCHANGED <<ticker, mgr, frame, eng, now, down, pan, tap, pinch, disp, obs, pre, count>>

\* steady_clock between two dispatches.
PressClock ==
    /\ now + PressClockStep <= MaxPressClockSteps * PressClockStep
    /\ now' = now + PressClockStep
    /\ UNCHANGED <<ticker, mgr, frame, eng, down, pan, tap, pinch, tree, disp, obs, lastOp, pre, fired,
                   trail, count>>

PressNext == PressTouch \/ DispSetCallback \/ CommitScroll \/ PressClock

SpecPress == Init /\ [][PressNext]_vars

\* C9: a began whose hit node has attached recognizers captures the pointer
\* to that node and reaches every recognizer attached to it, once each; a
\* later moved, ended or cancelled of the pointer reaches exactly the
\* recognizers of the node captured at its began, wherever the event is;
\* ended and cancelled remove the capture, and an event of a pointer without
\* a capture reaches no recognizer.
C9_PointerCapture ==
    lastOp.op = "touch" =>
        /\ Len(obs.delivered) = Cardinality(AttachedTo(disp, obs.owed))
        /\ {obs.delivered[i] : i \in 1..Len(obs.delivered)} =
               AttachedTo(disp, obs.owed)
        /\ \A p \in Pointers :
               IF obs.captured[p] = NoNode
               THEN p \notin DOMAIN disp.gesturePointers
               ELSE /\ p \in DOMAIN disp.gesturePointers
                    /\ disp.gesturePointers[p] = obs.captured[p]

\* A moved event away from node 4, which captured the pointer, reaches the
\* two recognizers of node 4, and the first has seen the pan activate.
C9_Witness ==
    /\ lastOp.op = "touch" /\ lastOp.phase = 1
    /\ obs.owed = 4 /\ obs.elsewhere
    /\ obs.delivered = <<1, 2>>
    /\ disp.recognizers[1].obj.state = "Changed"

\* The press callbacks among the callbacks of the last operation.
PressFired ==
    SelectSeq(fired, LAMBDA name : name \in PressCallbackNames)

\* C10: an ended for a pointer with a tracked press on node n fires
\* onPressOut first (when n has it), and after it onPress or onLongPress only
\* if the release position is inside n's bounds, the rectangle of n's
\* layout; a release outside fires neither.
C10_PressEnded ==
    (lastOp.op = "touch" /\ lastOp.phase = 2 /\ pre.nodeId # NoNode) =>
        LET n == pre.nodeId
            out == PressFire(disp, n, "onPressOut")
        IN  \E after \in {<<>>, <<"onPress">>, <<"onLongPress">>} :
                /\ PressFired = out \o after
                /\ after # <<>> => obs.inside

\* A release inside the bounds of node 3, with both callbacks set.
C10_Witness ==
    /\ lastOp.op = "touch" /\ lastOp.phase = 2
    /\ pre.nodeId = 3 /\ obs.inside
    /\ fired = <<"onPressOut", "onPress">>

\* The time the press the last event is about had been held at the event.
HeldMs == obs.heldMs

\* What a release fires after onPressOut.
AfterPressOut ==
    SelectSeq(PressFired, LAMBDA name : name # "onPressOut")

\* C11 as stated: a release inside the bounds fires onLongPress when the
\* press was held LongPressMs or longer and onPress otherwise, never both,
\* and never onPress for a press held LongPressMs or longer.
C11_LongPressElsePress ==
    (lastOp.op = "touch" /\ lastOp.phase = 2 /\ pre.nodeId # NoNode
        /\ obs.inside) =>
        AfterPressOut = PressFire(disp, pre.nodeId,
                                  IF HeldMs >= LongPressMs THEN "onLongPress"
                                  ELSE "onPress")

\* C11 amended: a release inside the bounds fires onLongPress when the
\* press was held LongPressMs or longer and the node has onLongPress set;
\* in every other case, a long hold on a node without onLongPress included,
\* it fires onPress when the node has it; never both.
C11_LongPressWhenSet ==
    (lastOp.op = "touch" /\ lastOp.phase = 2 /\ pre.nodeId # NoNode
        /\ obs.inside) =>
        AfterPressOut =
            IF HeldMs >= LongPressMs
               /\ PressFire(disp, pre.nodeId, "onLongPress") # <<>>
            THEN <<"onLongPress">>
            ELSE PressFire(disp, pre.nodeId, "onPress")

\* A press held exactly LongPressMs on a node with onPress and onLongPress
\* set, released inside the node: onLongPress alone.
C11_Witness ==
    /\ lastOp.op = "touch" /\ lastOp.phase = 2
    /\ pre.nodeId = 3 /\ obs.inside
    /\ HeldMs = LongPressMs
    /\ PressFire(disp, 3, "onPress") = <<"onPress">>
    /\ fired = <<"onLongPress">>

\* C12: a moved event of a pointer whose press is live fires no press
\* callback and keeps the press while it is at most 10 units from the
\* press start; the first one farther away fires onPressOut once and
\* abandons the press; a moved, ended or cancelled event of a pointer whose
\* press is over fires no press callback.
C12_PressAbandoned ==
    (lastOp.op = "touch" /\ lastOp.phase # 0) =>
        IF ~obs.was.live
        THEN /\ PressFired = <<>>
             /\ lastOp.pointerId \notin DOMAIN disp.activeTouches
        ELSE lastOp.phase = 1 =>
                 IF obs.was.far
                 THEN /\ PressFired = PressFire(disp, obs.was.nodeId, "onPressOut")
                      /\ lastOp.pointerId \notin DOMAIN disp.activeTouches
                 ELSE /\ PressFired = <<>>
                      /\ lastOp.pointerId \in DOMAIN disp.activeTouches
                      /\ disp.activeTouches[lastOp.pointerId] = pre

\* An ended event, inside the node, of a pointer whose press on node 3 with
\* onPress and onPressOut set was abandoned by a move: nothing is fired.
C12_Witness ==
    /\ lastOp.op = "touch" /\ lastOp.phase = 2
    /\ ~obs.was.live /\ obs.was.nodeId = 3 /\ obs.was.inside
    /\ PressFire(disp, 3, "onPress") # <<>>
    /\ PressFire(disp, 3, "onPressOut") # <<>>
    /\ fired = <<>>

\* onPressIn and onPressOut are both set on node n, or neither is.
PairRegistered(n) ==
    (PressFire(disp, n, "onPressIn") # <<>>) <=>
        (PressFire(disp, n, "onPressOut") # <<>>)

PressIns == Occurrences(fired, "onPressIn")

PressOuts == Occurrences(fired, "onPressOut")

\* C36: with onPressIn and onPressOut registered together on a node before
\* the first touch, an event of pointer p invokes onPressIn only when p has
\* no onPressIn without its onPressOut, invokes onPressOut only when p has
\* one, and invokes neither twice; once p's ended or cancelled has been
\* handled, no onPressIn of p is without its onPressOut.
C36_PressPaired ==
    (lastOp.op = "touch" /\ \A n \in PressNodes : PairRegistered(n)) =>
        /\ PressIns + PressOuts <= 1
        /\ PressIns = 1 => ~obs.wasPending
        /\ PressOuts = 1 => obs.wasPending
        /\ \A p \in Pointers : obs.pending[p] => p \in down

\* C36 witnesses: the onPressOut of a pointer released while the press of
\* another pointer goes on, and the onPressOut of a press that moved away,
\* with nothing fired by the release that follows.
C36_Witness ==
    /\ lastOp.op = "touch" /\ lastOp.phase \in {2, 3}
    /\ obs.wasPending /\ PressOuts = 1
    /\ \E p \in Pointers : p # lastOp.pointerId /\ obs.pending[p]

ReleasedAfterMovingAway ==
    /\ lastOp.op = "touch" /\ lastOp.phase = 2
    /\ PressFire(disp, 3, "onPressOut") # <<>>
    /\ obs.was.nodeId = 3 /\ ~obs.was.live
    /\ ~obs.wasPending /\ fired = <<>>

\* The last event released, within LongPressMs and where it began, a press
\* that has not moved, on a node with onPress set.
ReleasedInPlace ==
    /\ lastOp.op = "touch" /\ lastOp.phase = 2
    /\ obs.was.live /\ obs.was.still
    /\ obs.heldMs < LongPressMs
    /\ PressFire(disp, obs.was.nodeId, "onPress") # <<>>

\* C37: a press that began on node n, with onPress set on n, and is released
\* at the position of its began without having moved, held under 500 ms,
\* fires onPress, whatever the scroll offset of the container n is in.
C37_PressWhereBegan == ReleasedInPlace => Occurrences(fired, "onPress") = 1

\* The same with the container at scroll offset 0.
PressWhereBeganUnscrolled ==
    (ReleasedInPlace /\ \A n \in DOMAIN tree : tree[n].scrollY = 0) =>
        Occurrences(fired, "onPress") = 1

\* ------------------------------------------------------- hit-testing alone
\* The tree is changed from outside the dispatcher: the scroll engine
\* commits an offset to the scroll container, a node is hidden by visible
\* or by display, a node gets a callback entry; then a point is hit-tested.
HitScroll ==
    \E sx \in ScrollOffsets, sy \in ScrollOffsets :
        /\ tree' = [tree EXCEPT ![2].scrollX = sx, ![2].scrollY = sy]
        /\ tree' # tree
        /\ Configured("setConfig")
        /\ UNCHANGED <<ticker, mgr, frame, now, down, pan, tap, pinch, disp, eng, obs, pre, fired,
                       trail, count>>

HitHide ==
    \E n \in HideNodes :
        /\ \/ tree' = [tree EXCEPT ![n].visible = FALSE]
           \/ tree' = [tree EXCEPT ![n].display = "none"]
        /\ tree' # tree
        /\ Configured("setConfig")
        /\ UNCHANGED <<ticker, mgr, frame, now, down, pan, tap, pinch, disp, eng, obs, pre, fired,
                       trail, count>>

HitSetCallback ==
    \E n \in HitCallbackNodes :
        /\ disp' = SetCallback(disp, n, "onPress")
        /\ disp' # disp
        /\ Configured("setCallback")
        /\ UNCHANGED <<ticker, mgr, frame, now, down, pan, tap, pinch, tree, eng, obs, pre, fired,
                       trail, count>>

HitProbe ==
    \E x \in HitCoords, y \in HitCoords :
        /\ obs' = [hit |-> HitTest(tree, disp, x, y)]
        /\ lastOp' = Op("hitTest", 0, 0, x, y)
        /\ UNCHANGED <<ticker, mgr, frame, now, down, pan, tap, pinch, tree, disp, eng, pre, fired,
                       trail, count>>

HitNext == HitScroll \/ HitHide \/ HitSetCallback \/ HitProbe

SpecHit == Init /\ [][HitNext]_vars

\* A node takes part in hit-testing when it is visible and displayed.
Shown(n) == tree[n].visible /\ tree[n].display # "none"

InRect(n, x, y) ==
    /\ tree[n].absoluteX <= x /\ x <= tree[n].absoluteX + tree[n].width
    /\ tree[n].absoluteY <= y /\ y <= tree[n].absoluteY + tree[n].height

\* C13: with the scroll container 2 at offset (sx, sy) and everything shown,
\* its touchable child 3 is the node hit at the viewport point (x, y) exactly
\* when (x, y) is inside the container's rectangle and (x + sx, y + sy) is
\* inside the child's rectangle.
C13_HitThroughScroll ==
    (lastOp.op = "hitTest" /\ Shown(1) /\ Shown(2) /\ Shown(3)) =>
        (obs.hit = 3
            <=> /\ InRect(2, lastOp.x, lastOp.y)
                /\ InRect(3, lastOp.x + tree[2].scrollX,
                          lastOp.y + tree[2].scrollY))

\* Offset (0, 50): the child at content-space y = 60 is hit at viewport
\* y = 10.
C13_Witness ==
    /\ lastOp.op = "hitTest" /\ lastOp.y = 10
    /\ tree[2].scrollX = 0 /\ tree[2].scrollY = 50
    /\ tree[3].absoluteY = 60
    /\ obs.hit = 3

\* The path from the root to node n, and the point (x, y) of the viewport
\* in the space n is laid out in: shifted by the offset of every scroll
\* container above n.
ChildIds(n) == {tree[n].children[i] : i \in 1..Len(tree[n].children)}

ParentId(n) == CHOOSE q \in DOMAIN tree : n \in ChildIds(q)

RECURSIVE PathTo(_)
PathTo(n) == IF n = RootId THEN <<n>> ELSE Append(PathTo(ParentId(n)), n)

Above(n) == {PathTo(n)[i] : i \in 1..(Len(PathTo(n)) - 1)}

\* The offsets of the scroll containers on a path, its last node left out.
RECURSIVE ScrollSum(_, _, _)
ScrollSum(path, i, alongX) ==
    IF i >= Len(path) THEN 0
    ELSE (IF tree[path[i]].type # "Scroll" THEN 0
          ELSE IF alongX THEN tree[path[i]].scrollX ELSE tree[path[i]].scrollY)
         + ScrollSum(path, i + 1, alongX)

ScrolledX(n) == ScrollSum(PathTo(n), 1, TRUE)

ScrolledY(n) == ScrollSum(PathTo(n), 1, FALSE)

\* n is shown and holds the point, in its own space.
Holds(n, x, y) == Shown(n) /\ InRect(n, x + ScrolledX(n), y + ScrolledY(n))

\* n may be returned for (x, y): it and every node above it hold the point,
\* and it is touchable or has a callback entry.
Eligible(n, x, y) ==
    /\ \A a \in Above(n) \cup {n} : Holds(a, x, y)
    /\ tree[n].touchable \/ n \in DOMAIN disp.callbacks

ChildIndex(q, c) == CHOOSE i \in 1..Len(tree[q].children) : tree[q].children[i] = c

\* e is in front of r: below it, or in the subtree of a sibling inserted
\* after the one r is in.
InFrontOf(e, r) ==
    LET pe == PathTo(e)
        pr == PathTo(r)
    IN  \/ e # r /\ r \in Above(e)
        \/ \E i \in 2..Len(pe) :
               /\ i <= Len(pr)
               /\ pe[i - 1] = pr[i - 1]
               /\ pe[i] # pr[i]
               /\ ChildIndex(pe[i - 1], pe[i]) > ChildIndex(pr[i - 1], pr[i])

\* C14: hitTest returns an eligible node that no eligible node is in front
\* of, and nullptr when no node is eligible: the deepest node holding the
\* point, the last-inserted of overlapping siblings first, never a node
\* that is hidden or below a hidden node, and only a node that is touchable
\* or has a callback entry.
C14_HitOrder ==
    lastOp.op = "hitTest" =>
        LET cand == {n \in DOMAIN tree : Eligible(n, lastOp.x, lastOp.y)}
        IN  IF cand = {} THEN obs.hit = NoNode
            ELSE /\ obs.hit \in cand
                 /\ \A e \in cand : ~InFrontOf(e, obs.hit)

\* In the overlap of the siblings 4 and 5 the later one, 5, is hit.
C14_Witness ==
    /\ lastOp.op = "hitTest" /\ lastOp.x = 50 /\ lastOp.y = 90
    /\ Eligible(4, 50, 90) /\ Eligible(5, 50, 90)
    /\ obs.hit = 5

\* ------------------------------------------------------ ScrollEngine alone
\* One engine driven through __scrollSetConfig, __scrollSetCallbacks,
\* __scrollTouch and the frame's tick.
ScrollOffset(e) == IF e.horizontal THEN e.offsetX ELSE e.offsetY

ScrollVelocity(e) == IF e.horizontal THEN e.velocityX ELSE e.velocityY

ScrollMax(e) == IF e.horizontal THEN maxScrollX(e) ELSE maxScrollY(e)

ScrollViewport(e) == IF e.horizontal THEN e.viewportW ELSE e.viewportH

ScrollSnapTarget(e) == IF e.horizontal THEN e.snapTargetX ELSE e.snapTargetY

\* History: the touch events so far, the bound the offset was beyond at the
\* last release ("none" after any other touch), and the onScrollEnd
\* invocations since that touch.
NoScrollObs == [touches |-> 0, bound |-> "none", ends |-> 0]

ScrollSeen == IF "touches" \in DOMAIN obs THEN obs ELSE NoScrollObs

ViolatedBound(e) ==
    IF ScrollOffset(e) < 0 THEN "low"
    ELSE IF ScrollOffset(e) > ScrollMax(e) THEN "high"
    ELSE "none"

Releases(e, phase, p) ==
    phase = 2 /\ e.phase = "Dragging" /\ p = e.activePointerId

ScrollObsAfter(o, e, phase, p, f) ==
    [touches |-> o.touches + 1,
     bound |-> IF Releases(e, phase, p) THEN ViolatedBound(e) ELSE "none",
     ends |-> Occurrences(f, "onScrollEnd")]

ScrollPre(e) == [phase |-> e.phase, activePointerId |-> e.activePointerId]

\* The configuration calls an engine's settings stand for, at least.
ScrollSetups(e) ==
    Cardinality({k \in {"horizontal", "bounces", "scrollEnabled", "pagingEnabled",
                        "snapInterval", "decelerationRate"} :
                    e[k] # ScrollEngineNew[k]})
    + (IF e.cbs = {} THEN 0 ELSE 1)

\* A __scrollSetConfig call that changes the engine, before any touch.
ScrollConfigured(e) ==
    /\ Configuring
    /\ ScrollSetups(eng) < MaxScrollSetups
    /\ eng' = e
    /\ eng' # eng
    /\ Configured("setConfig")
    /\ fired' = <<>>
    /\ UNCHANGED <<ticker, mgr, frame, now, down, pan, tap, pinch, tree, disp, obs, pre, trail, count>>

ScrollConfigure ==
    \/ \E key \in {"horizontal", "pagingEnabled"} :
           ScrollConfigured(ScrollSetConfig(eng, key, TRUE))
    \/ \E key \in {"bounces", "scrollEnabled"} :
           ScrollConfigured(ScrollSetConfig(eng, key, FALSE))
    \/ ScrollConfigured(ScrollSetConfig(eng, "snapToInterval", SnapIntervals))
    \/ ScrollConfigured(ScrollSetConfig(eng, "decelerationRate", JsString("fast")))
    \/ ScrollConfigured(ScrollSetConfig(eng, "decelerationRate",
                                        JsNumber(SlowRate)))

ScrollRegister ==
    \E onScroll \in BOOLEAN, onScrollEnd \in BOOLEAN :
        /\ Configuring
        /\ ScrollSetups(eng) < MaxScrollSetups
        /\ eng' = ScrollSetCallbacks(eng, onScroll, onScrollEnd)
        /\ eng' # eng
        /\ Configured("setCallback")
        /\ fired' = <<>>
        /\ UNCHANGED <<ticker, mgr, frame, now, down, pan, tap, pinch, tree, disp, obs, pre, trail,
                       count>>

\* __scrollTouch, MaxTouches times at most: moves come TouchDeltas apart,
\* and the timestamp passed is the clock's.
ScrollTouch ==
    \E phase \in 0..3, pt \in ScrollPoints, p \in Pointers, delta \in TouchDeltas :
        /\ PhaseOk(phase, p)
        /\ ScrollSeen.touches < MaxTouches
        /\ phase # 1 => delta = TouchDelay
        /\ now' = now + delta
        /\ \E res \in {ScrollTouchPhase(eng, phase, pt[1], pt[2], now', p)} :
               /\ eng' = res.e
               /\ fired' = res.fired
               /\ obs' = ScrollObsAfter(ScrollSeen, eng, phase, p, res.fired)
        /\ down' = DownAfter(phase, p)
        /\ pre' = ScrollPre(eng)
        /\ lastOp' = Op("scrollTouch", phase, p, 0, 0)
        /\ UNCHANGED <<ticker, mgr, frame, pan, tap, pinch, tree, disp, trail, count>>

\* ScrollEngineManager::tickAll at a frame: engines that need no tick are
\* passed over.
ScrollTick ==
    /\ needsTick(eng)
    /\ now' = now + FrameMs
    /\ \E res \in {tick(eng, now')} :
           /\ eng' = res.e
           /\ fired' = res.fired
           /\ obs' = [ScrollSeen EXCEPT
                         !.ends = @ + Occurrences(res.fired, "onScrollEnd")]
    /\ pre' = ScrollPre(eng)
    /\ lastOp' = Op("tick", 0, 0, 0, 0)
    /\ UNCHANGED <<ticker, mgr, frame, down, pan, tap, pinch, tree, disp, trail, count>>

ScrollNext == ScrollConfigure \/ ScrollRegister \/ ScrollTouch \/ ScrollTick

SpecScroll == Init /\ [][ScrollNext]_vars

\* C1: a release of the active pointer while Dragging with the scroll-axis
\* offset outside [0, maxScroll] makes the phase Bouncing; the ticks that
\* follow bring the engine to Idle with the offset at the bound that was
\* violated, and onScrollEnd is invoked exactly once from the release to
\* Idle, not before.
C1_BounceSettles ==
    /\ (lastOp.op = "scrollTouch" /\ obs.bound # "none") => eng.phase = "Bouncing"
    /\ (lastOp.op = "tick" /\ obs.bound # "none") =>
           IF eng.phase = "Idle"
           THEN /\ ScrollOffset(eng) = (IF obs.bound = "low" THEN 0
                                        ELSE ScrollMax(eng))
                /\ "onScrollEnd" \in eng.cbs => obs.ends = 1
           ELSE obs.ends = 0

\* C2: a release of the active pointer while Dragging selects Bouncing when
\* the scroll-axis offset is outside [0, maxScroll]; else Snapping to the
\* page target when pagingEnabled; else Snapping to the interval target when
\* snapInterval > 0; else Decelerating when the release speed is at least
\* VELOCITY_THRESHOLD, and Idle below it.
C2_ReleasePriority ==
    (lastOp.op = "scrollTouch" /\ Releases(pre, lastOp.phase, lastOp.pointerId)) =>
        IF ScrollOffset(eng) < 0 \/ ScrollOffset(eng) > ScrollMax(eng)
        THEN eng.phase = "Bouncing"
        ELSE IF eng.pagingEnabled
        THEN /\ eng.phase = "Snapping"
             /\ ScrollSnapTarget(eng) =
                    findPageTarget(ScrollOffset(eng), ScrollVelocity(eng),
                                   ScrollViewport(eng), 0, ScrollMax(eng))
        ELSE IF eng.snapInterval > 0
        THEN /\ eng.phase = "Snapping"
             /\ ScrollSnapTarget(eng) =
                    findSnapTarget(ScrollOffset(eng), ScrollVelocity(eng),
                                   eng.snapInterval, 0, ScrollMax(eng),
                                   eng.decelerationRate)
        ELSE IF Abs(ScrollVelocity(eng)) >= VELOCITY_THRESHOLD
        THEN eng.phase = "Decelerating"
        ELSE eng.phase = "Idle"

\* A release inside the bounds with pagingEnabled and a snap interval both
\* set: the engine snaps to the page, which is not where the interval is.
C2_Witness ==
    /\ lastOp.op = "scrollTouch"
    /\ Releases(pre, lastOp.phase, lastOp.pointerId)
    /\ eng.pagingEnabled /\ eng.snapInterval > 0
    /\ ScrollOffset(eng) > 0 /\ ScrollOffset(eng) < ScrollMax(eng)
    /\ eng.phase = "Snapping"
    /\ ScrollSnapTarget(eng) #
           findSnapTarget(ScrollOffset(eng), ScrollVelocity(eng), eng.snapInterval,
                          0, ScrollMax(eng), eng.decelerationRate)

\* The offset committed to the node, on the scroll axis.
CommittedOffset(e) == IF e.horizontal THEN e.node.scrollX ELSE e.node.scrollY

\* C38: with bounces switched off before the first touch, the scroll-axis
\* offset of the engine and the one committed to the node are within
\* [0, maxScroll] after every touch event and tick, and the phase is never
\* Bouncing.
C38_NoOverscrollWithoutBounce ==
    ~eng.bounces =>
        /\ ScrollOffset(eng) >= 0 /\ ScrollOffset(eng) <= ScrollMax(eng)
        /\ CommittedOffset(eng) >= 0 /\ CommittedOffset(eng) <= ScrollMax(eng)
        /\ eng.phase # "Bouncing"

\* The part of C38 about the drag: while Dragging the offsets are within
\* [0, maxScroll].
DragClampedWithoutBounce ==
    (~eng.bounces /\ eng.phase = "Dragging") =>
        /\ ScrollOffset(eng) >= 0 /\ ScrollOffset(eng) <= ScrollMax(eng)
        /\ CommittedOffset(eng) >= 0 /\ CommittedOffset(eng) <= ScrollMax(eng)

\* ---------------------------------------------------- AnimationTicker alone
\* The history of the ticker: whether animation i was started with a
\* completion callback and how often that callback has been called.
NoAnimObs ==
    [onFinish |-> [i \in 1..MaxAnimations |-> FALSE],
     calls |-> [i \in 1..MaxAnimations |-> 0]]

AnimSeen == IF "calls" \in DOMAIN obs THEN obs ELSE NoAnimObs

\* The orders in which an unordered_map may yield the keys S.
Orders(S) ==
    {o \in [1..Cardinality(S) -> S] : \A i, j \in DOMAIN o : i # j => o[i] # o[j]}

AnimStart ==
    \E nodeId \in AnimNodes, duration \in AnimDurations, easing \in AnimEasings,
       hasOnFinish \in BOOLEAN :
        \E res \in {AnimateNode(ticker, tree, nodeId, "scrollY", AnimTarget,
                                duration, easing, hasOnFinish)} :
            /\ ticker.nextId_ <= MaxAnimations
            /\ ticker' = res.tk
            /\ obs' = IF res.id = -1 THEN AnimSeen
                      ELSE [AnimSeen EXCEPT !.onFinish[res.id] = hasOnFinish]
            /\ lastOp' = Op("animateNode", 0, res.id, 0, 0)
            /\ pre' = [tk |-> ticker, tree |-> tree]
            /\ fired' = <<>>
            /\ trail' = <<>>
            /\ UNCHANGED <<now, down, pan, tap, pinch, tree, disp, eng, mgr, frame,
                           count>>

\* __animateCancel(id), of an id that was or was not handed out.
AnimCancel ==
    \E id \in 1..MaxAnimations :
        /\ ticker' = cancel(ticker, id)
        /\ obs' = AnimSeen
        /\ lastOp' = Op("animateCancel", 0, id, 0, 0)
        /\ pre' = [tk |-> ticker, tree |-> tree]
        /\ fired' = <<>>
        /\ trail' = <<>>
        /\ UNCHANGED <<now, down, pan, tap, pinch, tree, disp, eng, mgr, frame,
                       count>>

\* The frame's call of tickAll, made when hasActive(): the runtime is passed.
AnimTickAll ==
    \E order \in Orders(DOMAIN ticker.animations_), react \in 0..MaxAnimations,
       threw \in BOOLEAN :
        \E res \in {tickAll(ticker, tree, now + FrameMs, TRUE, order, react,
                            threw)} :
            /\ hasActive(ticker)
            /\ now + FrameMs <= MaxFrames * FrameMs
            /\ now' = now + FrameMs
            /\ ticker' = res.tk
            /\ tree' = res.tree
            /\ obs' = [AnimSeen EXCEPT !.calls =
                          [i \in 1..MaxAnimations |->
                              @[i] + Occurrences(res.fired, i)]]
            /\ lastOp' = Op("tickAll", 0, react, 0, 0)
            /\ pre' = [tk |-> ticker, tree |-> tree]
            /\ fired' = res.fired
            /\ trail' = res.wrote
            /\ UNCHANGED <<down, pan, tap, pinch, disp, eng, mgr, frame, count>>

AnimNext == AnimStart \/ AnimCancel \/ AnimTickAll

SpecAnim == Init /\ [][AnimNext]_vars

Active == DOMAIN ticker.animations_

\* The animations the tickAll pass that was just made found finished: those
\* finished before it and those its tick finished.
FoundFinished ==
    {i \in DOMAIN pre.tk.animations_ :
        AnimationTick(pre.tk.animations_[i], now).finished}

\* C15: an animation started with a completion callback has had the
\* callback called exactly once when it is no longer in the active set and
\* not at all while it is in it; a tickAll pass removes exactly the
\* animations it finds finished and calls exactly their callbacks, each
\* once; an animation without a callback is never called.
C15_FinishOnce ==
    /\ \A i \in 1..MaxAnimations :
          AnimSeen.calls[i] =
                         IF AnimSeen.onFinish[i] /\ i < ticker.nextId_ /\ i \notin Active
                         THEN 1 ELSE 0
    /\ lastOp.op = "tickAll" =>
          /\ Active = DOMAIN pre.tk.animations_ \ FoundFinished
          /\ \A i \in 1..MaxAnimations :
                Occurrences(fired, i) =
                    IF i \in FoundFinished /\ AnimSeen.onFinish[i] THEN 1 ELSE 0

\* A pass finished a running animation that has a callback and kept another.
C15_Witness ==
    /\ lastOp.op = "tickAll"
    /\ \E i \in FoundFinished :
          /\ ~pre.tk.animations_[i].finished
          /\ pre.tk.animations_[i].started
          /\ obs.onFinish[i]
          /\ fired = <<i>>
    /\ Active # {}

\* C16: cancel(id) of an active animation sets its finished flag and nothing
\* else, so the animation is still active; cancel of any other id changes
\* nothing; the next tickAll removes a finished animation without ticking
\* it, and writes to a node only the values of the animations it ticked.
C16_CancelDeferred ==
    /\ lastOp.op = "animateCancel" =>
          /\ ticker = IF lastOp.pointerId \in DOMAIN pre.tk.animations_
                      THEN [pre.tk EXCEPT
                               !.animations_[lastOp.pointerId].finished = TRUE]
                      ELSE pre.tk
          /\ Active = DOMAIN pre.tk.animations_
          /\ hasActive(ticker) = hasActive(pre.tk)
          /\ tree = pre.tree
    /\ lastOp.op = "tickAll" =>
          /\ \A i \in DOMAIN pre.tk.animations_ :
                pre.tk.animations_[i].finished =>
                    i \notin Active /\ Occurrences(trail, i) = 0
          /\ \A n \in DOMAIN tree :
                (\A i \in DOMAIN pre.tk.animations_ :
                    pre.tk.animations_[i].node = n
                        => pre.tk.animations_[i].finished)
                    => tree[n] = pre.tree[n]

\* A running animation was cancelled, and the pass after that removed it
\* while the node kept the value of the tick before.
C16_Witness ==
    /\ lastOp.op = "tickAll"
    /\ \E i \in DOMAIN pre.tk.animations_ :
          /\ pre.tk.animations_[i].finished
          /\ pre.tk.animations_[i].started
          /\ pre.tk.animations_[i].currentValue # pre.tk.animations_[i].toValue
          /\ tree[2].scrollY = pre.tk.animations_[i].currentValue
          /\ i \notin Active

\* ------------------------------------------------------- the frame: onVsync
\* The application creates and removes scroll engines, sets their callbacks,
\* scrolls them, and queues timers and microtasks; the platform calls
\* onVsync.  Callbacks registered with __skiaRequestFrame are not modelled.
FrameDone(name) ==
    /\ lastOp' = Op(name, 0, 0, 0, 0)
    /\ pre' = [w |-> World(ManagerNew, TickerNew, TreeNew), f |-> RuntimeNew]
    /\ fired' = <<>>
    /\ trail' = <<>>
    /\ frame.calls < MaxCalls
    /\ UNCHANGED <<now, down, pan, tap, pinch, disp, eng, obs, count>>

Called(f) == [f EXCEPT !.calls = @ + 1]

FrameCreate ==
    \E nodeId \in FrameNodes :
        /\ mgr.nextId_ <= MaxEngines
        /\ mgr' = ScrollCreate(mgr, ScrollNodeIds, nodeId).m
        /\ FrameDone("scrollCreate")
        /\ frame' = Called(frame)
        /\ UNCHANGED <<ticker, tree>>

FrameRemove ==
    \E id \in 1..MaxEngines :
        /\ mgr' = remove(mgr, id)
        /\ FrameDone("remove")
        /\ frame' = Called(frame)
        /\ UNCHANGED <<ticker, tree>>

FrameSetCallbacks ==
    \E id \in 1..MaxEngines, onScroll \in BOOLEAN, onScrollEnd \in BOOLEAN :
        /\ mgr' = ScrollSetCallbacksOf(mgr, id, onScroll, onScrollEnd)
        /\ FrameDone("scrollSetCallbacks")
        /\ frame' = Called(frame)
        /\ UNCHANGED <<ticker, tree>>

FrameScrollTo ==
    \E id \in 1..MaxEngines, y \in {NearTarget, FarTarget} :
        /\ mgr' = ScrollTo(mgr, id, 0, y, TRUE)
        /\ FrameDone("scrollTo")
        /\ frame' = Called(frame)
        /\ UNCHANGED <<ticker, tree>>

FrameSetTimeout ==
    \E body \in TaskBodies, delayMs \in {0, 2 * FrameMs} :
        /\ frame' = Called(setTimeout(frame, body, delayMs, now))
        /\ FrameDone("setTimeout")
        /\ UNCHANGED <<mgr, ticker, tree>>

FrameQueueMicrotask ==
    \E body \in TaskBodies :
        /\ frame' = Called(queueMicrotask(frame, body))
        /\ FrameDone("queueMicrotask")
        /\ UNCHANGED <<mgr, ticker, tree>>

\* The animations the tasks start are alike, so one order of them is taken.
AnimationRank == [i \in 1..MaxCalls |-> i]

FrameVsync ==
    \E ready \in BOOLEAN, orderE \in Orders(DOMAIN mgr.engines_),
       throws \in SUBSET ScrollCallbackNames :
        \E res \in {onVsync(World(mgr, ticker, tree), frame, now + FrameMs,
                            now + FrameMs, ready, orderE, AnimationRank, throws,
                            FALSE)} :
            /\ now + FrameMs <= MaxVsyncs * FrameMs
            /\ now' = now + FrameMs
            /\ mgr' = res.w.m
            /\ ticker' = res.w.tk
            /\ tree' = res.w.tree
            /\ frame' = res.f
            /\ obs' = [ready |-> ready, orderE |-> orderE, throws |-> throws,
                       escaped |-> res.escaped]
            /\ lastOp' = Op("onVsync", 0, 0, 0, 0)
            /\ pre' = [w |-> World(mgr, ticker, tree), f |-> frame]
            /\ fired' = <<>>
            /\ trail' = <<>>
            /\ UNCHANGED <<down, pan, tap, pinch, disp, eng, count>>

FrameNext ==
    \/ FrameCreate \/ FrameRemove \/ FrameSetCallbacks \/ FrameScrollTo
    \/ FrameSetTimeout \/ FrameQueueMicrotask \/ FrameVsync

SpecFrame == Init /\ [][FrameNext]_vars

\* C17: an onVsync in which callbacks throw leaves the scroll engines, the
\* animations and the tree as the same onVsync leaves them when every
\* callback returns.
C17_ThrowIsolated ==
    lastOp.op = "onVsync" =>
        World(mgr, ticker, tree) =
            onVsync(pre.w, pre.f, now, now, obs.ready, obs.orderE, AnimationRank,
                    {}, FALSE).w

\* C18: no two engines of the manager point to one node.
C18_OneEnginePerNode ==
    \A i, j \in DOMAIN mgr.engines_ :
        mgr.engines_[i].node = mgr.engines_[j].node => i = j

StepRank(name) ==
    CASE name = "timers" -> 1
      [] name = "microtasks" -> 2
      [] name = "scrollTick" -> 3
      [] name = "animationTick" -> 4
      [] name = "render" -> 5

StepsTaken == {frame.steps[i] : i \in DOMAIN frame.steps}

\* The tasks the frame found due: the ready timers and the microtasks.
DueTasks ==
    {pre.f.sTimers[i].callback :
        i \in {k \in DOMAIN pre.f.sTimers : pre.f.sTimers[k].fireTimeMs <= now}}
        \cup {pre.f.sMicrotasks[i] : i \in DOMAIN pre.f.sMicrotasks}

\* C19: the steps of an onVsync are taken in the order timers, microtasks,
\* scroll tick, animation tick, render, the first two in every frame; an
\* animation that a due task starts is ticked in the frame that renders; and
\* what the render step draws is what the frame leaves, nothing being ticked
\* after it.
C19_FrameOrder ==
    lastOp.op = "onVsync" =>
        /\ Len(frame.steps) >= 2
        /\ frame.steps[1] = "timers"
        /\ frame.steps[2] = "microtasks"
        /\ \A i, j \in DOMAIN frame.steps :
              i < j => StepRank(frame.steps[i]) < StepRank(frame.steps[j])
        /\ "animationTick" \in StepsTaken => "scrollTick" \in StepsTaken
        /\ "render" \in StepsTaken =>
              /\ "scrollTick" \in StepsTaken
              /\ "animate" \in DueTasks => "animationTick" \in StepsTaken
              /\ frame.drawn = <<World(mgr, ticker, tree)>>

\* A frame that ran a due timer starting an animation, ticked an engine,
\* ticked the animation and rendered.
C19_Witness ==
    /\ lastOp.op = "onVsync"
    /\ frame.steps = <<"timers", "microtasks", "scrollTick", "animationTick",
                       "render">>
    /\ \E i \in DOMAIN pre.f.sTimers : pre.f.sTimers[i].callback = "animate"
    /\ \E id \in DOMAIN mgr.engines_ : mgr.engines_[id].e.lastTimestamp = now
    /\ tree[2].scrollY = AnimTarget

\* ------------------------------------------- the dispatcher's gesture table
\* attachGesture, setGestureCallback and setGestureConfig with types and
\* gesture ids that do and do not exist; obs keeps the arguments and the
\* value returned.
TableDone(name, o) ==
    /\ lastOp' = Op(name, 0, 0, 0, 0)
    /\ obs' = o
    /\ pre' = disp
    /\ fired' = <<>>
    /\ trail' = <<>>
    /\ UNCHANGED <<now, down, pan, tap, pinch, tree, eng, mgr, ticker, frame,
                   count>>

TableAttach ==
    \E nodeId \in AttachNodes, type \in TableTypes :
        /\ disp.nextGestureId <= MaxGestures + 1
        /\ disp' = AttachGesture(disp, nodeId, type).d
        /\ TableDone("attachGesture",
                     [nodeId |-> nodeId, type |-> type,
                      result |-> AttachGesture(disp, nodeId, type).result])

TableSetCallback ==
    \E gestureId \in 1..(MaxGestures + 1), event \in TableEvents :
        /\ disp' = SetGestureCallback(disp, gestureId, event)
        /\ TableDone("setGestureCallback",
                     [gestureId |-> gestureId, event |-> event])

TableSetConfig ==
    \E gestureId \in 1..(MaxGestures + 1), key \in TableKeys :
        /\ disp' = SetGestureConfig(disp, gestureId, key, MaxRequiredTaps)
        /\ TableDone("setGestureConfig", [gestureId |-> gestureId, key |-> key])

TableNext == TableAttach \/ TableSetCallback \/ TableSetConfig

SpecTable == Init /\ [][TableNext]_vars

\* C20: attachGesture with a type that is none of pan, pinch, rotation and
\* tap returns -1 and leaves recognizers_ and nodeGestures_ as they were,
\* and with one of them returns an id that is not -1; setGestureCallback and
\* setGestureConfig with a gesture id that is not registered leave every
\* recognizer as it was.
C20_UnresolvableIsNoOp ==
    /\ lastOp.op = "attachGesture" =>
          IF obs.type \in {"pan", "pinch", "rotation", "tap"}
          THEN obs.result # -1 /\ obs.result \in DOMAIN disp.recognizers
          ELSE /\ obs.result = -1
               /\ disp.recognizers = pre.recognizers
               /\ disp.nodeGestures = pre.nodeGestures
    /\ lastOp.op \in {"setGestureCallback", "setGestureConfig"}
          /\ obs.gestureId \notin DOMAIN pre.recognizers =>
              disp.recognizers = pre.recognizers

\* A type that does not exist was attached to a node that has a recognizer.
C20_Witness ==
    /\ lastOp.op = "attachGesture"
    /\ obs.type = "swipe"
    /\ obs.nodeId \in DOMAIN pre.nodeGestures
    /\ obs.result = -1
    /\ disp.nextGestureId = pre.nextGestureId + 1

\* ---------------------------------------------------- VelocityTracker alone
\* The tracker is the engine's trackerY.  now is the latest timestamp
\* offered, and the position offered with a timestamp is that of a touch
\* moving at TrackerRate px/100 per ms.  obs keeps the number of distinct
\* timestamps offered since the tracker was last empty by construction or
\* reset (2 standing for more), the first of them, and the value
\* getVelocity returned.
NoTrackerObs == [offered |-> 0, first |-> 0, result |-> 0]

TrackerSeen == IF "offered" \in DOMAIN obs THEN obs ELSE NoTrackerObs

Offered(o, timestamp) ==
    IF o.offered = 0 THEN [o EXCEPT !.offered = 1, !.first = timestamp]
    ELSE IF timestamp # o.first THEN [o EXCEPT !.offered = 2]
    ELSE o

TrackerDone(name, timestamp, position) ==
    /\ lastOp' = Op(name, 0, 0, timestamp, position)
    /\ pre' = eng.trackerY
    /\ fired' = <<>>
    /\ trail' = <<>>
    /\ UNCHANGED <<down, pan, tap, pinch, tree, disp, mgr, ticker, frame, count>>

TrackerAdd ==
    \E step \in TrackerSteps :
        /\ now + step <= MaxTrackerMs
        /\ now' = Max(now, now + step)
        /\ eng' = [eng EXCEPT !.trackerY =
                      addPoint(@, now + step, TrackerRate * (now + step))]
        /\ obs' = Offered(TrackerSeen, now + step)
        /\ TrackerDone("addPoint", now + step, TrackerRate * (now + step))

TrackerGetVelocity ==
    /\ eng' = [eng EXCEPT !.trackerY = Pruned(@)]
    /\ obs' = [TrackerSeen EXCEPT !.result = getVelocity(eng.trackerY)]
    /\ TrackerDone("getVelocity", 0, 0)
    /\ UNCHANGED now

TrackerReset ==
    /\ eng' = [eng EXCEPT !.trackerY = reset(@)]
    /\ obs' = NoTrackerObs
    /\ TrackerDone("reset", 0, 0)
    /\ UNCHANGED now

TrackerNext == TrackerAdd \/ TrackerGetVelocity \/ TrackerReset

SpecTracker == Init /\ [][TrackerNext]_vars

Samples == eng.trackerY.samples

Newest(samples) == samples[Len(samples)].timestamp

\* C21: the timestamps stored are strictly increasing, the newest being the
\* last accepted one, and at most MAX_SAMPLES samples are stored; addPoint
\* with a timestamp that is not later than the last accepted one, a sample
\* being stored, leaves the tracker as it was; after getVelocity no sample
\* stored is more than HISTORY_WINDOW_MS older than the newest.
C21_TrackerOrdered ==
    /\ \A i, j \in DOMAIN Samples :
          i < j => Samples[i].timestamp < Samples[j].timestamp
    /\ Samples # <<>> => Newest(Samples) = eng.trackerY.lastTs
    /\ Len(Samples) <= MAX_SAMPLES
    /\ lastOp.op = "addPoint" /\ pre.samples # <<>> /\ lastOp.x <= pre.lastTs
          => eng.trackerY = pre
    /\ lastOp.op = "getVelocity" =>
          \A i \in DOMAIN Samples :
              Newest(Samples) - Samples[i].timestamp <= HISTORY_WINDOW_MS

\* A sample was accepted by a full tracker, which dropped its oldest.
C21_Witness ==
    /\ lastOp.op = "addPoint"
    /\ Len(pre.samples) = MAX_SAMPLES
    /\ Len(Samples) = MAX_SAMPLES
    /\ Newest(Samples) = lastOp.x
    /\ Samples[1] = pre.samples[2]

\* C22: getVelocity returns 0 when fewer than MIN_SAMPLES samples are left
\* after its pruning and when all the timestamps offered were one and the
\* same; offering a sample older than the window of the samples stored does
\* not change what getVelocity returns.
C22_VelocityZero ==
    /\ lastOp.op = "getVelocity" =>
          /\ Len(Samples) < MIN_SAMPLES => obs.result = 0
          /\ obs.offered <= 1 => obs.result = 0
    /\ lastOp.op = "addPoint" /\ pre.samples # <<>>
          /\ lastOp.x < Newest(pre.samples) - HISTORY_WINDOW_MS
          => getVelocity(eng.trackerY) = getVelocity(pre)

\* Samples that gave a velocity were stored, and getVelocity pruned them to
\* fewer than MIN_SAMPLES and returned 0.
C22_Witness ==
    /\ lastOp.op = "getVelocity"
    /\ Len(pre.samples) >= MIN_SAMPLES
    /\ VelocityOf(pre.samples) # 0
    /\ Len(Samples) < MIN_SAMPLES
    /\ obs.result = 0

\* ---------------------------------------------------------- springStep alone
\* A run: an offset, a velocity, a target and a step are chosen, then
\* springStep is applied to its own result until it reports finished.  obs is
\* the run, pre the offset and velocity handed to the last call.
SpringRun(offset, velocity, target, dtMs) ==
    [offset |-> offset, velocity |-> velocity, target |-> target,
     dtMs |-> dtMs, offset0 |-> offset, velocity0 |-> velocity,
     calls |-> 0, finished |-> FALSE]

RunDone(name) ==
    /\ lastOp' = Op(name, 0, 0, 0, 0)
    /\ fired' = <<>>
    /\ trail' = <<>>
    /\ UNCHANGED <<now, down, pan, tap, pinch, tree, disp, eng, mgr, ticker,
                   frame, count>>

SpringBegin ==
    /\ lastOp.op = "init"
    /\ \E offset \in SpringOffsets, velocity \in SpringVelocities,
          target \in SpringTargets, dtMs \in SpringSteps :
           obs' = SpringRun(offset, velocity, target, dtMs)
    /\ pre' = pre
    /\ RunDone("begin")

SpringStepped(run, r) ==
    [run EXCEPT !.offset = r.offset, !.velocity = r.velocity,
                !.finished = r.finished, !.calls = @ + 1]

SpringStep ==
    /\ lastOp.op \in {"begin", "springStep"}
    /\ ~obs.finished
    /\ obs.calls < MaxSpringCalls
    /\ obs' = SpringStepped(obs, springStep(obs.offset, obs.velocity,
                                            obs.target, obs.dtMs))
    /\ pre' = [offset |-> obs.offset, velocity |-> obs.velocity]
    /\ RunDone("springStep")

SpringNext == SpringBegin \/ SpringStep

SpecSpring == Init /\ [][SpringNext]_vars

SpringRunning == lastOp.op \in {"begin", "springStep"}

\* The distance a critically damped spring released at offset0 with
\* velocity0 can reach: |C1| + |C2| / (e * omega) at most, which is below
\* 2 * |offset0 - target| + |velocity0| / omega.
SpringReach(run) ==
    2 * Abs(run.offset0 - run.target)
      + Round(Abs(run.velocity0) * Tenths, SPRING_OMEGA)
      + SPRING_SETTLE_THRESHOLD

DecelerationRun(offset, velocity, dtMs, rate) ==
    [offset |-> offset, velocity |-> velocity, dtMs |-> dtMs, rate |-> rate,
     calls |-> 0, finished |-> FALSE]

DecelerationBegin ==
    /\ lastOp.op = "init"
    /\ \E offset \in DecelerationOffsets, velocity \in DecelerationVelocities,
          dtMs \in DecelerationSteps, rate \in DecelerationRates :
           obs' = DecelerationRun(offset, velocity, dtMs, rate)
    /\ pre' = pre
    /\ RunDone("begin")

DecelerationStep ==
    /\ lastOp.op \in {"begin", "decelerationStep"}
    /\ ~obs.finished
    /\ obs.calls < MaxDecelerationCalls
    /\ obs' = SpringStepped(obs, decelerationStep(obs.offset, obs.velocity,
                                                  obs.dtMs, obs.rate,
                                                  0, DecelerationMax))
    /\ pre' = [offset |-> obs.offset, velocity |-> obs.velocity]
    /\ RunDone("decelerationStep")

DecelerationNext == DecelerationBegin \/ DecelerationStep

SpecDeceleration == Init /\ [][DecelerationNext]_vars

\* The velocity the last call stepped to, before the threshold is applied.
SteppedVelocity == Round(pre.velocity * Friction(obs.dtMs, obs.rate), Factor)

NoGoal == [set |-> FALSE, x |-> 0, y |-> 0, ticks |-> 0]

NoEngineObs ==
    [touches |-> 0, late |-> 0, dt |-> 0, fresh |-> FALSE, first |-> FALSE,
     goal |-> NoGoal, ends |-> 0, returned |-> FALSE]

EngineSeen == IF "late" \in DOMAIN obs THEN obs ELSE NoEngineObs

Entered(e, after) == needsTick(after) /\ after.phase # e.phase

EngineDone(name, phase, p, x, y) ==
    /\ lastOp' = Op(name, phase, p, x, y)
    /\ pre' = eng
    /\ trail' = <<>>
    /\ UNCHANGED <<pan, tap, pinch, tree, disp, mgr, ticker, frame, count>>

EngineRegister ==
    /\ lastOp.op = "init"
    /\ eng' = ScrollSetCallbacks(eng, TRUE, TRUE)
    /\ fired' = <<>>
    /\ obs' = NoEngineObs
    /\ EngineDone("setCallback", 0, 0, 0, 0)
    /\ UNCHANGED <<now, down>>

TouchOf(pointers, most) ==
    \E phase \in 0..3, pt \in ScrollPoints, p \in pointers :
        /\ PhaseOk(phase, p)
        /\ EngineSeen.touches < most
        /\ now' = now + TouchDelay
        /\ \E res \in {ScrollTouchPhase(eng, phase, pt[1], pt[2], now', p)} :
               /\ eng' = res.e
               /\ fired' = res.fired
               /\ obs' = [EngineSeen EXCEPT !.touches = @ + 1, !.dt = 0,
                                            !.fresh = Entered(eng, res.e),
                                            !.goal = NoGoal, !.ends = 0,
                                            !.returned = IF phase = 0
                                                         THEN res.returned
                                                         ELSE FALSE]
        /\ down' = DownAfter(phase, p)
        /\ EngineDone("scrollTouch", phase, p, pt[1], pt[2])

EngineTouch == TouchOf(Pointers, MaxTouches)

EngineSetConfig ==
    \E kv \in {<<"pagingEnabled", TRUE>>, <<"snapToInterval", SnapIntervals>>} :
        /\ EngineSeen.late < MaxLateCalls
        /\ eng' = ScrollSetConfig(eng, kv[1], kv[2])
        /\ fired' = <<>>
        /\ obs' = [EngineSeen EXCEPT !.late = @ + 1, !.dt = 0, !.goal = NoGoal,
                                     !.ends = 0, !.returned = FALSE]
        /\ EngineDone("setConfig", 0, 0, 0, 0)
        /\ UNCHANGED <<now, down>>

Goal(e) == [set |-> TRUE, x |-> e.snapTargetX, y |-> e.snapTargetY, ticks |-> 0]

EngineScrollTo ==
    \E pt \in ScrollGoals, animated \in BOOLEAN :
        /\ EngineSeen.late < MaxLateCalls
        /\ \E res \in {scrollTo(eng, pt[1], pt[2], animated)} :
               /\ eng' = res.e
               /\ fired' = res.fired
               /\ obs' = [EngineSeen EXCEPT
                             !.late = @ + 1, !.dt = 0, !.ends = 0,
                             !.fresh = animated, !.returned = FALSE,
                             !.goal = IF animated THEN Goal(res.e) ELSE NoGoal]
        /\ EngineDone("scrollTo", IF animated THEN 1 ELSE 0, 0, pt[1], pt[2])
        /\ UNCHANGED <<now, down>>

\* tick: the ticks of a running animation one frame apart are the frame's;
\* any other tick is a late call.
TickOf(gaps) ==
    \E gap \in gaps :
        /\ (needsTick(eng) /\ gap = FrameMs) \/ EngineSeen.late < MaxLateCalls
        /\ now' = now + gap
        /\ \E res \in {tick(eng, now')} :
               /\ eng' = res.e
               /\ fired' = res.fired
               /\ obs' = [EngineSeen EXCEPT
                             !.late = IF needsTick(eng) /\ gap = FrameMs
                                      THEN @ ELSE @ + 1,
                             !.dt = IF needsTick(eng)
                                    THEN FrameInterval(eng, now') ELSE 0,
                             !.fresh = Entered(eng, res.e),
                             !.first = EngineSeen.fresh, !.returned = FALSE,
                             !.goal.ticks = IF EngineSeen.goal.set THEN @ + 1 ELSE @,
                             !.ends = @ + Occurrences(res.fired, "onScrollEnd")]
        /\ EngineDone("tick", 0, 0, now', 0)
        /\ UNCHANGED down

EngineTick == TickOf(TickGaps)

EngineNext ==
    \/ EngineRegister
    \/ EngineTouch
    \/ EngineSetConfig
    \/ EngineScrollTo
    \/ EngineTick

SpecEngine == Init /\ [][EngineNext]_vars

\* C25: tick in Idle or Dragging changes no field of the engine, writes
\* nothing to the node and fires no callback; onTouchMoved changes nothing
\* and fires nothing unless the phase is Dragging and the pointer is the
\* active pointer.
C25_GuardsHold ==
    /\ (lastOp.op = "tick" /\ pre.phase \in {"Idle", "Dragging"})
          => (eng = pre /\ fired = <<>>)
    /\ (/\ lastOp.op = "scrollTouch" /\ lastOp.phase = 1
        /\ ~(pre.phase = "Dragging" /\ lastOp.pointerId = pre.activePointerId))
          => (eng = pre /\ fired = <<>>)

\* A tick while Dragging with an offset the node already shows, and a move of
\* a pointer that is down but not the active one.
C25_Witness ==
    /\ lastOp.op = "scrollTouch" /\ lastOp.phase = 1
    /\ pre.phase = "Dragging"
    /\ lastOp.pointerId # pre.activePointerId
    /\ lastOp.y # pre.lastTouchY
    /\ "onScroll" \in pre.cbs
    /\ eng = pre

\* C26: onTouchCancelled for the active pointer leaves the engine Bouncing
\* when the scroll-axis offset is outside [0, maxScroll] and Idle otherwise;
\* it never enters Decelerating or Snapping; and it changes the phase only
\* when the engine is Dragging.
C26_CancelOnlyDragging ==
    (lastOp.op = "scrollTouch" /\ lastOp.phase = 3)
        => /\ lastOp.pointerId = pre.activePointerId
                 => eng.phase = (IF Overscrolled(pre) THEN "Bouncing" ELSE "Idle")
           /\ eng.phase \in {"Decelerating", "Snapping"} => eng.phase = pre.phase
           /\ pre.phase # "Dragging" => eng.phase = pre.phase

\* The other parts of C26: the phase a cancel of the active pointer leaves,
\* and no cancel enters Decelerating or Snapping.
CancelChoosesBounceOrIdle ==
    (lastOp.op = "scrollTouch" /\ lastOp.phase = 3)
        => /\ lastOp.pointerId = pre.activePointerId
                 => eng.phase = (IF Overscrolled(pre) THEN "Bouncing" ELSE "Idle")
           /\ eng.phase \in {"Decelerating", "Snapping"} => eng.phase = pre.phase

\* C40: after any sequence of touches, scrollTo calls and ticks the active
\* pointer id is set (not -1) exactly when the phase is Dragging, and an
\* onTouchEnded or onTouchCancelled that arrives outside Dragging leaves the
\* phase as it was, so it aborts no running animation.
C40_PointerIffDragging ==
    /\ (eng.activePointerId # NoPointer) <=> (eng.phase = "Dragging")
    /\ (lastOp.op = "scrollTouch" /\ lastOp.phase \in {2, 3}
                                  /\ pre.phase # "Dragging")
          => eng.phase = pre.phase

\* The parts of C40 by themselves: a Dragging engine has its pointer; a
\* pointer is kept only while Dragging; a release outside Dragging changes
\* nothing; a cancel outside Dragging leaves the phase.
DraggingHasPointer ==
    eng.phase = "Dragging" => eng.activePointerId # NoPointer

PointerOnlyDragging ==
    eng.activePointerId # NoPointer => eng.phase = "Dragging"

EndedOutsideDragging ==
    (lastOp.op = "scrollTouch" /\ lastOp.phase = 2 /\ pre.phase # "Dragging")
        => (eng = pre /\ fired = <<>>)

CancelledOutsideDragging ==
    (lastOp.op = "scrollTouch" /\ lastOp.phase = 3 /\ pre.phase # "Dragging")
        => eng.phase = pre.phase

\* scrollTo reached an engine that was Dragging and left the pointer set.
ScrollToWhileDragging ==
    /\ lastOp.op = "scrollTo" /\ pre.phase = "Dragging"
    /\ eng.phase # "Dragging" /\ eng.activePointerId = pre.activePointerId

\* A slow drag of pointer 1, then configuration calls and ticks: the
\* deceleration that follows the release comes to rest inside the bounds.
SlowTouch ==
    \E phase \in 0..2, y \in SlowDragYs :
        /\ PhaseOk(phase, 1)
        /\ EngineSeen.touches < MaxTouches
        /\ now' = now + TouchDelay
        /\ \E res \in {ScrollTouchPhase(eng, phase, 0, y, now', 1)} :
               /\ eng' = res.e
               /\ fired' = res.fired
               /\ obs' = [EngineSeen EXCEPT !.touches = @ + 1, !.dt = 0,
                                            !.fresh = Entered(eng, res.e),
                                            !.goal = NoGoal, !.ends = 0,
                                            !.returned = IF phase = 0
                                                         THEN res.returned
                                                         ELSE FALSE]
        /\ down' = DownAfter(phase, 1)
        /\ EngineDone("scrollTouch", phase, 1, 0, y)

ChainNext == EngineRegister \/ SlowTouch \/ EngineSetConfig \/ EngineTick

SpecChain == Init /\ [][ChainNext]_vars

\* C27: a tick in Decelerating whose friction step completes chains to
\* Bouncing when the scroll-axis offset is out of bounds, otherwise to
\* Snapping when a snap interval or paging is configured, otherwise goes to
\* Idle and fires onScrollEnd; a chain fires no onScrollEnd in that tick.
\* The friction step completed when the tick left Decelerating.
C27_DecelerationChains ==
    (lastOp.op = "tick" /\ pre.phase = "Decelerating" /\ eng.phase # "Decelerating")
        => IF Overscrolled(eng)
           THEN eng.phase = "Bouncing" /\ Occurrences(fired, "onScrollEnd") = 0
           ELSE IF eng.snapInterval > 0 \/ eng.pagingEnabled
           THEN eng.phase = "Snapping" /\ Occurrences(fired, "onScrollEnd") = 0
           ELSE /\ eng.phase = "Idle"
                /\ "onScrollEnd" \in eng.cbs
                      => Occurrences(fired, "onScrollEnd") = 1

\* What holds of the code: the chain to Snapping is taken for a snap
\* interval only.
DecelerationChainsOnInterval ==
    (lastOp.op = "tick" /\ pre.phase = "Decelerating" /\ eng.phase # "Decelerating")
        => IF Overscrolled(eng)
           THEN eng.phase = "Bouncing" /\ Occurrences(fired, "onScrollEnd") = 0
           ELSE IF eng.snapInterval > 0
           THEN eng.phase = "Snapping" /\ Occurrences(fired, "onScrollEnd") = 0
           ELSE /\ eng.phase = "Idle"
                /\ "onScrollEnd" \in eng.cbs
                      => Occurrences(fired, "onScrollEnd") = 1

\* Each way out of Decelerating is taken.
ChainedToSnapping ==
    /\ lastOp.op = "tick" /\ pre.phase = "Decelerating"
    /\ eng.phase = "Snapping"

ChainedToBouncing ==
    /\ lastOp.op = "tick" /\ pre.phase = "Decelerating"
    /\ eng.phase = "Bouncing"

DeceleratedToIdle ==
    /\ lastOp.op = "tick" /\ pre.phase = "Decelerating"
    /\ eng.phase = "Idle" /\ ~eng.pagingEnabled

\* C28: scrollTo(x, y, animated).  Not animated: the offset is (x, y) clamped
\* to [0, maxScrollX] x [0, maxScrollY], the node shows it, the phase is
\* Idle, and onScroll then onScrollEnd are invoked once each.  Animated: the
\* offset is unchanged, the phase is Snapping, the snap target is the
\* clamped (x, y), both velocities are 0 and nothing is invoked; the ticks
\* that follow stay Snapping without onScrollEnd until, within MaxSnapTicks,
\* one leaves the engine Idle at the target with one onScrollEnd.
C28_ScrollToLands ==
    /\ (lastOp.op = "scrollTo" /\ lastOp.phase = 0)
          => /\ eng.offsetX = clampf(lastOp.x, 0, maxScrollX(eng))
             /\ eng.offsetY = clampf(lastOp.y, 0, maxScrollY(eng))
             /\ eng.node.scrollX = eng.offsetX /\ eng.node.scrollY = eng.offsetY
             /\ eng.phase = "Idle"
             /\ fired = FireIf(eng.cbs, "onScroll") \o FireIf(eng.cbs, "onScrollEnd")
    /\ (lastOp.op = "scrollTo" /\ lastOp.phase = 1)
          => /\ eng.offsetX = pre.offsetX /\ eng.offsetY = pre.offsetY
             /\ eng.phase = "Snapping"
             /\ eng.snapTargetX = clampf(lastOp.x, 0, maxScrollX(eng))
             /\ eng.snapTargetY = clampf(lastOp.y, 0, maxScrollY(eng))
             /\ eng.velocityX = 0 /\ eng.velocityY = 0
             /\ fired = <<>>
    /\ (lastOp.op = "tick" /\ obs.goal.set)
          => IF eng.phase = "Idle"
             THEN /\ eng.offsetX = obs.goal.x /\ eng.offsetY = obs.goal.y
                  /\ eng.node.scrollX = obs.goal.x /\ eng.node.scrollY = obs.goal.y
                  /\ obs.ends = (IF "onScrollEnd" \in eng.cbs THEN 1 ELSE 0)
             ELSE /\ eng.phase = "Snapping"
                  /\ obs.ends = 0
                  /\ obs.goal.ticks < MaxSnapTicks

\* An animated scrollTo made during a fling has come to rest at the clamped
\* point, both axes having moved.
C28_Witness ==
    /\ lastOp.op = "tick" /\ obs.goal.set
    /\ eng.phase = "Idle"
    /\ obs.goal.ticks > 1
    /\ obs.ends = 1
    /\ eng.offsetX = 3000 /\ eng.offsetY = 4000
    /\ pre.offsetY # 4000

\* The tick handed a step to the physics.
Physics == lastOp.op = "tick" /\ needsTick(pre)

\* C29 as stated: the step handed to the physics is at most 32 ms and
\* positive on every tick, whatever the gap between the timestamps of
\* consecutive ticks, and is 16.67 ms on the first tick after the engine
\* entered Decelerating, Bouncing or Snapping.
C29_StepPositive ==
    Physics => /\ obs.dt <= MAX_FRAME_MS
               /\ obs.dt > 0
               /\ obs.first => obs.dt = FIRST_FRAME_MS

\* C29 (amended): the step handed to the physics is at most 32 ms on every
\* tick, whatever the gap between the timestamps of consecutive ticks, and is
\* positive when the timestamp is later than that of the tick before; the
\* first tick after the engine entered Decelerating, Bouncing or Snapping
\* uses 16.67 ms.
C29_StepClamped ==
    Physics => /\ obs.dt <= MAX_FRAME_MS
               /\ lastOp.x > pre.lastTimestamp => obs.dt > 0
               /\ obs.first => obs.dt = FIRST_FRAME_MS

\* A first tick is taken in each of the three phases.
FirstTickIn(phase) == Physics /\ obs.first /\ pre.phase = phase

FirstTickDecelerating == FirstTickIn("Decelerating")

FirstTickBouncing == FirstTickIn("Bouncing")

FirstTickSnapping == FirstTickIn("Snapping")

C29_Witness ==
    /\ Physics
    /\ pre.lastTimestamp > 0
    /\ lastOp.x - pre.lastTimestamp = HitchMs
    /\ obs.dt = MAX_FRAME_MS
    /\ eng.phase = pre.phase

\* ------------------------------------------------ a timing animation alone
\* One Animation with the timing driver, ticked at timestamps that do not
\* decrease (the frame clock's).  obs is the animation, the timestamp of its
\* first tick (-1 before it); pre is the animation before the tick.
TimingRun(a) == [a |-> a, first |-> -1]

TimingBegin ==
    /\ lastOp.op = "init"
    /\ \E from \in TimingFroms, duration \in TimingDurations,
          easing \in AnimEasings :
           obs' = TimingRun([AnimationNew EXCEPT
                                !.fromValue = from, !.currentValue = from,
                                !.toValue = AnimTarget, !.duration = duration,
                                !.easing = easingFromString(easing)])
    /\ pre' = pre
    /\ UNCHANGED now
    /\ lastOp' = Op("begin", 0, 0, 0, 0)
    /\ UNCHANGED <<down, pan, tap, pinch, tree, disp, eng, mgr, ticker, frame,
                   fired, trail, count>>

TimingTick ==
    \E gap \in TimingGaps :
        /\ lastOp.op \in {"begin", "tick"}
        /\ now + gap <= MaxTimingMs
        /\ now' = now + gap
        /\ obs' = [obs EXCEPT !.a = AnimationTick(@, now'),
                              !.first = IF obs.a.started \/ obs.a.finished
                                        THEN @ ELSE now']
        /\ pre' = obs.a
        /\ lastOp' = Op("tick", 0, 0, now', 0)
        /\ UNCHANGED <<down, pan, tap, pinch, tree, disp, eng, mgr, ticker, frame,
                       fired, trail, count>>

TimingNext == TimingBegin \/ TimingTick

SpecTiming == Init /\ [][TimingNext]_vars

\* The last call ticked an animation that was not finished; the time since
\* its first tick.
Ticked == lastOp.op = "tick" /\ ~pre.finished

Elapsed == lastOp.x - obs.first

\* C30: the start time of a timing animation is the timestamp of its first
\* tick; for linear easing the value written lies between fromValue and
\* toValue on every tick; the first tick whose elapsed time is >= duration
\* leaves the value exactly toValue and the animation finished, and no tick
\* before it finishes the animation; with duration <= 0 that is the first
\* tick.
C30_TimingClamped ==
    Ticked
        => /\ obs.a.started
           /\ obs.a.startTime = obs.first
           /\ obs.a.easing = "easeLinear"
                 => /\ obs.a.currentValue >= Min(obs.a.fromValue, obs.a.toValue)
                    /\ obs.a.currentValue <= Max(obs.a.fromValue, obs.a.toValue)
           /\ obs.a.finished <=> Elapsed >= obs.a.duration
           /\ obs.a.finished => obs.a.currentValue = obs.a.toValue
           /\ obs.a.duration <= 0 => ~pre.started /\ obs.a.finished

\* A tick later than the duration finishes a running linear animation whose
\* value was strictly between the two ends.
C30_Witness ==
    /\ Ticked
    /\ pre.started
    /\ obs.a.easing = "easeLinear"
    /\ obs.a.duration > 0
    /\ Elapsed > obs.a.duration
    /\ pre.currentValue # pre.fromValue /\ pre.currentValue # pre.toValue
    /\ obs.a.currentValue = obs.a.toValue
    /\ obs.a.finished

\* ------------------------------------------- Rotation beside Pinch
\* A rotation recognizer and a pinch recognizer with the same callbacks set
\* are handed the same touch events.  obs holds the rotation recognizer and
\* what its last onTouchEvent fired and assigned to state.
MirrorObs(r, f, t) == [rot |-> r, fired |-> f, trail |-> t]

MirrorSeen == lastOp.op \in {"attach", "touch"}

MirrorAttach ==
    \E cbs \in SUBSET GestureCallbackNames :
        /\ lastOp.op = "init"
        /\ pinch' = [PinchNew EXCEPT !.cbs = cbs]
        /\ obs' = MirrorObs([RotationNew EXCEPT !.cbs = cbs], <<>>, <<>>)
        /\ lastOp' = Op("attach", 0, 0, 0, 0)
        /\ pre' = PinchNew
        /\ fired' = <<>>
        /\ trail' = <<>>
        /\ UNCHANGED <<ticker, mgr, frame, eng, now, down, pan, tap, tree, disp, count>>

MirrorTouch ==
    \E phase \in 0..3, p \in ManyPointers, pt \in PairPoints :
        /\ MirrorSeen
        /\ PhaseOk(phase, p)
        /\ LET res == PinchOnTouchEvent(pinch, phase, pt[1], pt[2], p)
               rot == RotationOnTouchEvent(obs.rot, phase, pt[1], pt[2], p)
           IN  /\ pinch' = res.rec
               /\ fired' = res.fired
               /\ trail' = res.trail
               /\ obs' = MirrorObs(rot.rec, rot.fired, rot.trail)
        /\ pre' = pinch
        /\ down' = DownAfter(phase, p)
        /\ lastOp' = Op("touch", phase, p, pt[1], pt[2])
        /\ UNCHANGED <<ticker, mgr, frame, eng, now, pan, tap, tree, disp, count>>

MirrorNext == MirrorAttach \/ MirrorTouch

SpecMirror == Init /\ [][MirrorNext]_vars

\* C31: handed the same touch events, the rotation recognizer and the pinch
\* recognizer are in the same state, track the same pointers in the same
\* slots with the same count, and their last onTouchEvent assigned the same
\* states and fired the same callbacks in the same order.
C31_RotationMirrorsPinch ==
    MirrorSeen =>
        /\ obs.rot.state = pinch.state
        /\ obs.rot.numActive = pinch.numActive
        /\ obs.rot.touch1 = pinch.touch1 /\ obs.rot.touch2 = pinch.touch2
        /\ obs.trail = trail
        /\ obs.fired = fired

\* C31 witness: a pinch and a rotation of two pointers ended by the release
\* of one of them, both firing onEnd and both left with one tracked pointer.
C31_Witness ==
    /\ lastOp.op = "touch" /\ lastOp.phase \in {2, 3}
    /\ pre.state = "Changed" /\ pre.numActive = 2
    /\ fired = <<"onEnd">> /\ obs.fired = <<"onEnd">>
    /\ trail = <<"Ended">> /\ obs.trail = <<"Ended">>
    /\ pinch.numActive = 1 /\ obs.rot.numActive = 1

\* ----------------------------------- ScrollEngine: a touch begins anywhere
\* The engine of SpecEngine with scrolling switched off at any time through
\* __scrollSetConfig, in place of the paging and snap configuration.
EngineDisable ==
    /\ EngineSeen.late < MaxLateCalls
    /\ eng' = ScrollSetConfig(eng, "scrollEnabled", FALSE)
    /\ fired' = <<>>
    /\ obs' = [EngineSeen EXCEPT !.late = @ + 1, !.dt = 0, !.goal = NoGoal,
                                 !.ends = 0, !.returned = FALSE]
    /\ EngineDone("setConfig", 0, 0, 0, 0)
    /\ UNCHANGED <<now, down>>

\* Touches of one pointer, enough of them for a drag of three samples and a
\* touch after its release.
BeganTouch == TouchOf(BeganPointers, MaxBeganTouches)

\* The ticks of the frames, one frame apart.
BeganTick == TickOf({FrameMs})

BeganNext ==
    \/ EngineRegister
    \/ BeganTouch
    \/ EngineDisable
    \/ EngineScrollTo
    \/ BeganTick

SpecBegan == Init /\ [][BeganNext]_vars

TouchBegan == lastOp.op = "scrollTouch" /\ lastOp.phase = 0

OneSample(tr, timestamp, position) ==
    tr = addPoint(TrackerNew, timestamp, position)

\* C32: onTouchBegan with scrollEnabled set, in whichever phase, leaves the
\* engine Dragging with the given pointer active, no animation running
\* (lastTimestamp 0), each tracker holding the sample of this touch alone,
\* returns true and fires no onScrollEnd; with scrollEnabled clear it
\* returns false, fires nothing and changes no field of the engine.
C32_BeganTakesOver ==
    TouchBegan =>
        IF pre.scrollEnabled
        THEN /\ obs.returned
             /\ eng.phase = "Dragging" /\ eng.lastTimestamp = 0
             /\ eng.activePointerId = lastOp.pointerId
             /\ OneSample(eng.trackerX, now, lastOp.x)
             /\ OneSample(eng.trackerY, now, lastOp.y)
             /\ ~Fired("onScrollEnd")
        ELSE ~obs.returned /\ eng = pre /\ fired = <<>>

BeganOver(phase) ==
    /\ TouchBegan /\ pre.scrollEnabled /\ pre.phase = phase
    /\ eng.phase = "Dragging" /\ obs.returned

\* C32 witnesses: a touch begins while the engine is Decelerating, Bouncing
\* and Snapping, and while scrolling is switched off during an animation.
BeganOverDecelerating ==
    BeganOver("Decelerating") /\ pre.lastTimestamp > 0 /\ Len(pre.trackerY.samples) > 1

BeganOverBouncing == BeganOver("Bouncing") /\ pre.lastTimestamp > 0

BeganOverSnapping == BeganOver("Snapping") /\ pre.lastTimestamp > 0

BeganRefused ==
    /\ TouchBegan /\ ~pre.scrollEnabled /\ needsTick(pre) /\ ~obs.returned

C32_Witness == BeganOverDecelerating

\* The touch slots of r whose active flag is set.
ActiveSlots(r) ==
    (IF r.touch1.active THEN 1 ELSE 0) + (IF r.touch2.active THEN 1 ELSE 0)

SlotsCounted(r) == r.numActive \in 0..2 /\ r.numActive = ActiveSlots(r)

\* The slot was active before the event and holds another pointer after it.
Overwritten(before, after) ==
    before.active /\ after.active /\ after.pointerId # before.pointerId

\* C34: after every touch event the pinch and the rotation recognizer have
\* numActive_ within 0..2 and equal to the number of slots whose active flag
\* is set, and a touch-down has not replaced the pointer of a slot that was
\* active.
C34_SlotsCounted ==
    lastOp.op = "touch" =>
        /\ SlotsCounted(pinch)
        /\ SlotsCounted(obs.rot)
        /\ lastOp.phase = 0 =>
              /\ ~Overwritten(pre.touch1, pinch.touch1)
              /\ ~Overwritten(pre.touch2, pinch.touch2)

\* The parts of C34 one by one: the range of the counter, the counter
\* against the flags, and the overwritten slot.
NumActiveInRange ==
    lastOp.op = "touch" =>
        pinch.numActive \in 0..2 /\ obs.rot.numActive \in 0..2

NumActiveIsFlags ==
    lastOp.op = "touch" =>
        /\ pinch.numActive = ActiveSlots(pinch)
        /\ obs.rot.numActive = ActiveSlots(obs.rot)

NoSlotOverwritten ==
    (lastOp.op = "touch" /\ lastOp.phase = 0) =>
        /\ ~Overwritten(pre.touch1, pinch.touch1)
        /\ ~Overwritten(pre.touch2, pinch.touch2)

\* ------------------------------------- Pan, Pinch and Rotation: callbacks
\* One recognizer of each kind, all three callbacks set, handed the same
\* touch events.  obs holds the rotation recognizer, what each recognizer
\* fired at the last event, and for each whether an onStart without its
\* onEnd was outstanding before (was) and is after (open) that event.
PairKinds == {"pan", "pinch", "rotation"}

\* The outstanding onStart after the callbacks f, given it before them.
RECURSIVE OpenAfter(_, _, _)
OpenAfter(open, f, i) ==
    IF i > Len(f) THEN open
    ELSE OpenAfter(CASE f[i] = "onStart" -> TRUE
                     [] f[i] = "onEnd" -> FALSE
                     [] OTHER -> open, f, i + 1)

\* onStart only with none outstanding, onUpdate and onEnd only with one.
RECURSIVE Alternates(_, _, _)
Alternates(open, f, i) ==
    IF i > Len(f) THEN TRUE
    ELSE /\ IF f[i] = "onStart" THEN ~open ELSE open
         /\ Alternates(OpenAfter(open, <<f[i]>>, 1), f, i + 1)

PairAttach ==
    /\ lastOp.op = "init"
    /\ pan' = [PanNew EXCEPT !.cbs = GestureCallbackNames]
    /\ pinch' = [PinchNew EXCEPT !.cbs = GestureCallbackNames]
    /\ obs' = [rot |-> [RotationNew EXCEPT !.cbs = GestureCallbackNames],
               fired |-> [k \in PairKinds |-> <<>>],
               was |-> [k \in PairKinds |-> FALSE],
               open |-> [k \in PairKinds |-> FALSE]]
    /\ lastOp' = Op("attach", 0, 0, 0, 0)
    /\ UNCHANGED <<ticker, mgr, frame, eng, now, down, tap, tree, disp, pre,
                   fired, trail, count>>

PairTouch ==
    \E phase \in 0..3, p \in ManyPointers, pt \in PairPoints :
        /\ lastOp.op # "init"
        /\ PhaseOk(phase, p)
        /\ LET a == PanOnTouchEvent(pan, phase, pt[1], pt[2], p)
               b == PinchOnTouchEvent(pinch, phase, pt[1], pt[2], p)
               c == RotationOnTouchEvent(obs.rot, phase, pt[1], pt[2], p)
               f == [k \in PairKinds |->
                        CASE k = "pan" -> a.fired
                          [] k = "pinch" -> b.fired
                          [] OTHER -> c.fired]
           IN  /\ pan' = a.rec
               /\ pinch' = b.rec
               /\ obs' = [rot |-> c.rec,
                          fired |-> f,
                          was |-> obs.open,
                          open |-> [k \in PairKinds |->
                                       OpenAfter(obs.open[k], f[k], 1)]]
        /\ down' = DownAfter(phase, p)
        /\ lastOp' = Op("touch", phase, p, pt[1], pt[2])
        /\ UNCHANGED <<ticker, mgr, frame, eng, now, tap, tree, disp, pre,
                       fired, trail, count>>

PairNext == PairAttach \/ PairTouch

SpecPairing == Init /\ [][PairNext]_vars

PairedIn(k) ==
    lastOp.op = "touch" => Alternates(obs.was[k], obs.fired[k], 1)

\* C33: for the pan, the pinch and the rotation recognizer, onStart is fired
\* only when no earlier onStart is without its onEnd, and onUpdate and onEnd
\* only when one is.
C33_StartEndAlternate == \A k \in PairKinds : PairedIn(k)

\* The three recognizers one by one.
PanPaired == PairedIn("pan")

PinchPaired == PairedIn("pinch")

RotationPaired == PairedIn("rotation")

\* ------------------------------------ ScrollEngine: an animation runs out
\* One pointer drags, the configuration may change once, and the frame
\* keeps ticking the engine while it needs it.
SettleTouch == TouchOf(BeganPointers, MaxTouches)

SettleNext == EngineRegister \/ SettleTouch \/ EngineSetConfig \/ BeganTick

SpecSettle == Init /\ [][SettleNext]_vars /\ WF_vars(BeganTick)

\* An animation runs; the engine is Idle, or a touch has taken it over.
Animating == needsTick(eng)

Settled == eng.phase = "Idle" \/ eng.phase = "Dragging"

\* A tick of a running animation invoked onScrollEnd (when set) once if it
\* left the engine Idle, the only time since the animation was last touched, and
\* not at all if it left it Decelerating, Bouncing or Snapping.
TickEndsOnce ==
    (lastOp.op = "tick" /\ needsTick(pre) /\ "onScrollEnd" \in eng.cbs) =>
        IF eng.phase = "Idle"
        THEN obs.ends = 1 /\ Occurrences(fired, "onScrollEnd") = 1
        ELSE obs.ends = 0 /\ Occurrences(fired, "onScrollEnd") = 0

\* C39: an engine that is Decelerating, Bouncing or Snapping and is ticked
\* every frame reaches Idle unless a touch takes it over first, and
\* onScrollEnd is invoked once, by the tick that enters Idle, and by no
\* tick that leaves the engine in Decelerating, Bouncing or Snapping.
C39_TicksSettle ==
    /\ []TickEndsOnce
    /\ Animating ~> Settled

\* A tick chains a deceleration into a bounce or a snap.
TickChains ==
    /\ lastOp.op = "tick" /\ pre.phase = "Decelerating"
    /\ eng.phase \in {"Bouncing", "Snapping"}

\* C39 witness: a tick enters Idle from a bounce, with the one onScrollEnd
\* since the release.
C39_Witness ==
    /\ lastOp.op = "tick" /\ eng.phase = "Idle" /\ pre.phase = "Bouncing"
    /\ obs.ends = 1 /\ Occurrences(fired, "onScrollEnd") = 1

\* The other ways a running animation ends: a snap that reaches its target,
\* and (with a longer drag than SettleTouch allows) a fling that stops on
\* its own inside the content.
SnapSettles == lastOp.op = "tick" /\ pre.phase = "Snapping" /\ eng.phase = "Idle"

FlingSettles == lastOp.op = "tick" /\ pre.phase = "Decelerating" /\ eng.phase = "Idle"

====
